---- MODULE Spec2Model ----
(***************************************************************************)
(* Model of the request-processing engine of the multi-transport JSON-RPC  *)
(* 2.0 server: pkg/types, pkg/middleware (Chain), pkg/dispatcher and       *)
(* pkg/server (JSONRPCProcessor and the HTTP / WebSocket / TCP handlers).  *)
(***************************************************************************)
EXTENDS Integers, Sequences, FiniteSets, TLC

VARIABLES
    handlers,         \* Dispatcher.handlers: method name -> registered handler
    middlewareChain,  \* Dispatcher.middlewareChain: sequence of middlewares
    conn,             \* the stream connection being served (TCP/TLS/WS/WSS)
    msg,              \* the message most recently delivered by a transport
    result,           \* the interface{} value the Processor returned for msg
    written,          \* the frames / body the transport wrote for msg
    status,           \* HTTP status code written for msg (0 on stream transports)
    dispatchLog,      \* one record per Dispatcher.Dispatch call made for msg
    mu,               \* Dispatcher.mu (sync.RWMutex): the writer and the readers holding it
    goroutines,       \* the goroutines calling the Dispatcher, each with its position
    completed,        \* per method, what the last completed Register/Unregister left
    asyncProcessor,   \* DefaultAsyncProcessor: its lifetime context and its WaitGroup
    tasks,            \* the calls of Process, each with the goroutine it started
    shutdown,         \* the call of DefaultAsyncProcessor.Shutdown and its waiter goroutine
    process,          \* the operating-system process: running, or ended by a panic
    stopped,          \* whether Server.Stop has returned nil, and what was there when it was called
    logger,           \* the Logger: its LoggingConfig and whether it has an AsyncProcessor
    loggedCalls,      \* the calls that run through LoggingMiddleware, each with its position
    sink,             \* per call, where Logger.logEntry put the entry of the call
    probe,            \* the most recent direct call of Logger.shouldLog and its result
    chainObjects,     \* the Chain objects by address: the middlewares slice of each, and an append in progress
    chainPointer,     \* d.middlewareChain: the address of the Chain the Dispatcher holds
    inFlight,         \* the call that is inside Chain.Execute, with its position
    inbox,            \* the messages the client has sent on the connection and the server has not read
    sent,             \* every message the client has sent on the connection, in the order sent
    served,           \* one record per turn of the connection's loop: the message read and what became of it
    arrays,           \* the backing arrays of the []string slices GetRegisteredMethods made, by address
    lists,            \* the slices GetRegisteredMethods has returned, each with the registry of that moment
    clock,            \* the Clock shared by the request contexts and the Logger: the time it shows
    contexts,         \* the RequestContext objects made for the call, by address
    call,             \* the call that is passing through the chain with its context, and its position
    entry,            \* the LogEntry the log task of the call built
    connections,      \* the connections of the server by number: state, transport, calls served
    writerClosed,     \* whether Logger.Close has closed the LogWriter
    closedWrites,     \* the log tasks that called Write after the LogWriter was closed
    callers,          \* the goroutines that are inside ProcessSingleRequest at the same time
    timed,            \* the calls of ProcessWithTimeout, by the number of their call of Process
    mock,             \* the MockAsyncProcessor: processedFunctions and processErrors
    submitted,        \* the calls of its Process since the last Reset: fn and returned error
    given,            \* the errors last handed to SetProcessErrors, and how many calls came before
    ran,              \* the fns that have run, in the order in which they ran
    expected          \* the fns that were recorded and not nil at each ExecuteProcessedFunctions

\* the state of the server and of the call it serves
serverVars == <<handlers, middlewareChain, conn, msg, result, written, status, dispatchLog>>

\* the state of the goroutines that use the registry concurrently
registryVars == <<mu, goroutines, completed>>

\* the state of the asynchronous pipeline
asyncVars == <<asyncProcessor, tasks, shutdown, process>>

\* the state of the Logger and of the calls that pass through its middleware
loggingVars == <<logger, loggedCalls, sink, probe>>

\* the Chain objects, the pointer of the Dispatcher to one of them, and the
\* call that is running through a chain
chainVars == <<chainObjects, chainPointer, inFlight>>

\* a stream connection with the messages that travel on it
streamVars == <<inbox, sent, served>>

\* the lists of method names handed out to callers
listVars == <<arrays, lists>>

\* a call, its request contexts and its log entry
contextVars == <<clock, contexts, call, entry>>

\* the connections the server has accepted
connVars == <<connections>>

\* the LogWriter closed by Logger.Close
closeVars == <<writerClosed, closedWrites>>

\* the calls the Processor serves concurrently
processorVars == <<callers>>

\* the calls of ProcessWithTimeout
timeoutVars == <<timed>>

\* the test variant of the pipeline and what its test observes
mockVars == <<mock, submitted, given, ran, expected>>

vars == <<serverVars, registryVars, asyncVars, stopped, loggingVars, chainVars, streamVars, listVars, contextVars, connVars, closeVars, processorVars, timeoutVars, mockVars>>

----------------------------------------------------------------------------
(* Bounds of the model *)

\* longest middleware chain installed with SetMiddleware
MaxChain == 2

\* largest number of elements in a batch array
MaxBatch == 2

\* number of goroutines that call the Dispatcher concurrently
MaxGoroutines == 3

\* number of calls of Process on the asynchronous pipeline
MaxTasks == 2

\* longest IncludeMethods / ExcludeMethods list of a LoggingConfig
MaxFilter == 2

\* number of messages a client sends on one stream connection
MaxMessages == 2

\* number of calls of GetRegisteredMethods
MaxLists == 2

\* latest time the clock shows
MaxClock == 2

\* calls of Process of the MockAsyncProcessor between two Resets, errors
\* handed to SetProcessErrors, and fns run between two Resets
MaxSubmits == 3
MaxErrors == 2
MaxRan == 3

\* number of calls the Processor serves at the same time
MaxCallers == 2

\* number of connections, and of calls served on one connection
MaxConns == 2
MaxCalls == 2

----------------------------------------------------------------------------
(* pkg/types: error codes and factories *)

ParseError == -32700
InvalidRequest == -32600
MethodNotFound == -32601
InvalidParams == -32602
InternalError == -32603

NilError == [t |-> "nil"]

NewParseError == [t |-> "error", code |-> ParseError, message |-> "Parse error"]

NewInvalidRequestError == [t |-> "error", code |-> InvalidRequest, message |-> "Invalid Request"]

NewMethodNotFoundError == [t |-> "error", code |-> MethodNotFound, message |-> "Method not found"]

NewInvalidParamsError == [t |-> "error", code |-> InvalidParams, message |-> "Invalid params"]

\* NewInternalError(data): the one error of the model whose Data is looked at
NewInternalError(data) ==
    [t |-> "error", code |-> InternalError, message |-> "Internal error", data |-> data]

----------------------------------------------------------------------------
(* JSON numbers.  encoding/json decodes a number that is stored into an    *)
(* interface{} as a float64.  A non-negative integer literal n < 2^54 is   *)
(* kept as the pair (hi, lo) with n = hi * 2^30 + lo and 0 <= lo < 2^30.   *)

Limb == 2 ^ 30

\* hi part of 2^53, the first integer whose successor is not a float64
MantissaHi == 2 ^ 23

Num(hi, lo) == [t |-> "number", hi |-> hi, lo |-> lo]

\* strconv.ParseFloat on an integer literal: exact below 2^53, and between
\* 2^53 and 2^54 rounded to the nearest even integer, ties to the even
\* mantissa (the multiple of 4)
ParseFloat(hi, lo) ==
    IF hi < MantissaHi \/ lo % 2 = 0
    THEN [t |-> "float64", hi |-> hi, lo |-> lo]
    ELSE LET r == IF (lo + 1) % 4 = 0 THEN lo + 1 ELSE lo - 1
         IN  IF r = Limb
             THEN [t |-> "float64", hi |-> hi + 1, lo |-> 0]
             ELSE [t |-> "float64", hi |-> hi, lo |-> r]

----------------------------------------------------------------------------
(* pkg/types: JSONRPCRequest and JSONRPCResponse *)

\* the id as it stands in the bytes of an envelope
AbsentId == [t |-> "absent"]
NullId == [t |-> "null"]
StrId(s) == [t |-> "string", s |-> s]

\* a Go interface{} holding nil
NilValue == [t |-> "nil"]

\* a nil *JSONRPCResponse
NilResponse == [t |-> "nil"]

\* json.Unmarshal into the field ID interface{}: an absent key leaves the
\* zero value nil, null sets nil, a string stays a string, a number becomes
\* a float64
UnmarshalID(tok) ==
    CASE tok.t = "absent" -> NilValue
      [] tok.t = "null"   -> NilValue
      [] tok.t = "string" -> [t |-> "string", s |-> tok.s]
      [] tok.t = "number" -> ParseFloat(tok.hi, tok.lo)

\* json.Marshal of the field ID interface{} `json:"id"`: nil is written as
\* null, a float64 integer below 1e21 in plain decimal form
MarshalID(v) ==
    CASE v.t = "nil"     -> NullId
      [] v.t = "string"  -> StrId(v.s)
      [] v.t = "float64" -> Num(v.hi, v.lo)

\* json.Unmarshal(data, &request) for a JSONRPCRequest: fails unless data is
\* a JSON object whose fields have the types of the struct
Unmarshal(data) ==
    IF data.k = "object"
    THEN [err |-> FALSE,
          request |-> [JSONRPC |-> data.jsonrpc, Method |-> data.method,
                       ID |-> UnmarshalID(data.id)]]
    ELSE [err |-> TRUE,
          request |-> [JSONRPC |-> "", Method |-> "", ID |-> NilValue]]

IsNotification(r) == r.ID = NilValue

Response(jsonrpc, res, error, id) ==
    [t |-> "response", JSONRPC |-> jsonrpc, Result |-> res, Error |-> error, ID |-> id]

\* json.Marshal of a *JSONRPCResponse: result and error carry omitempty, id
\* does not
EncodeResponse(r) ==
    [jsonrpc |-> r.JSONRPC,
     hasResult |-> r.Result # NilValue,
     hasError |-> r.Error # NilError,
     code |-> IF r.Error # NilError THEN r.Error.code ELSE 0,
     id |-> MarshalID(r.ID)]

----------------------------------------------------------------------------
(* Handlers (types.Handler).  A handler is arbitrary code of the form      *)
(* (request, context) -> (response, error); the registry holds one of the  *)
(* behaviours below under a method name.                                   *)

\* a Go error that is nil
NoErr == "<nil>"

HandlerKinds ==
    {"ok",        \* a response with a result (EchoHandler)
     "rpcerr",    \* a response with an RPC error (CalculateHandler, division by zero)
     "fail",      \* (nil, error) (the test_error handler of registerDefaultHandlers)
     "nilnil",    \* (nil, nil)
     "both",      \* a response with result and error both set
     "nullres",   \* a response whose Result is nil and whose Error is nil
     "foreign"}   \* a response with its own id and protocol version

\* the handler is not in the map
NoHandler == "<none>"

Outcome(resp, err, trace) == [resp |-> resp, err |-> err, trace |-> trace]

HandlerEvent == [ev |-> "handler", who |-> 0]

\* the call finalHandler(req, ctx)
CallHandler(h, req) ==
    LET out ==
        CASE h = "ok"      -> <<Response("2.0", [t |-> "string", s |-> "ok"], NilError, req.ID), NoErr>>
          [] h = "rpcerr"  -> <<Response("2.0", NilValue, NewInvalidParamsError, req.ID), NoErr>>
          [] h = "fail"    -> <<NilResponse, "intentional test error">>
          [] h = "nilnil"  -> <<NilResponse, NoErr>>
          [] h = "both"    -> <<Response("2.0", [t |-> "string", s |-> "ok"], NewInvalidParamsError, req.ID), NoErr>>
          [] h = "nullres" -> <<Response("2.0", NilValue, NilError, req.ID), NoErr>>
          [] h = "foreign" -> <<Response("1.0", [t |-> "string", s |-> "ok"], NilError, [t |-> "string", s |-> "evil"]), NoErr>>
    IN  Outcome(out[1], out[2], <<HandlerEvent>>)

----------------------------------------------------------------------------
(* Middlewares (types.Middleware): (request, context, next) -> (response,  *)
(* error).  `down` is what the call next(req, ctx) yields; a middleware    *)
(* that does not call next never looks at it.                              *)

MiddlewareKinds ==
    {"pass",      \* calls next and returns what it returned (Tracing, Authentication,
                  \* HandlerSelection and Logging middleware)
     "skip",      \* returns a response of its own without calling next
     "rewrite"}   \* calls next, then turns a failure into an error response and
                  \* overwrites id and version of a response

Pre(i) == [ev |-> "pre", who |-> i]
Post(i) == [ev |-> "post", who |-> i]

\* the body of the middleware at position index of the chain
RunMiddleware(kind, index, req, down) ==
    CASE kind = "pass" ->
            Outcome(down.resp, down.err, <<Pre(index)>> \o down.trace \o <<Post(index)>>)
      [] kind = "skip" ->
            Outcome(Response("2.0", [t |-> "string", s |-> "middleware_response"], NilError, req.ID),
                    NoErr, <<Pre(index), Post(index)>>)
      [] kind = "rewrite" ->
            Outcome(IF down.err # NoErr
                    THEN Response("2.0", NilValue, NewInternalError(down.err), req.ID)
                    ELSE IF down.resp = NilResponse
                    THEN NilResponse
                    ELSE [down.resp EXCEPT !.ID = [t |-> "string", s |-> "evil"], !.JSONRPC = "1.0"],
                    NoErr,
                    <<Pre(index)>> \o down.trace \o <<Post(index)>>)

----------------------------------------------------------------------------
(* pkg/middleware: Chain *)

RECURSIVE executeMiddlewareOffByOne(_, _, _, _)
\* executeMiddleware with the end of the chain tested one position early
executeMiddlewareOffByOne(c, index, req, finalHandler) ==
    IF index >= Len(c)
    THEN CallHandler(finalHandler, req)
    ELSE LET nextHandler == executeMiddlewareOffByOne(c, index + 1, req, finalHandler)
         IN  RunMiddleware(c[index], index, req, nextHandler)

RECURSIVE executeMiddlewareRunsOn(_, _, _, _)
\* executeMiddleware as a loop that goes on with the rest of the chain after
\* a middleware that returned without calling next
executeMiddlewareRunsOn(c, index, req, finalHandler) ==
    IF index > Len(c)
    THEN CallHandler(finalHandler, req)
    ELSE LET nextHandler == executeMiddlewareRunsOn(c, index + 1, req, finalHandler)
             own == RunMiddleware(c[index], index, req, nextHandler)
         IN  IF c[index] = "skip"
             THEN Outcome(own.resp, own.err, own.trace \o nextHandler.trace)
             ELSE own

RECURSIVE executeMiddleware(_, _, _, _)
\* Chain.executeMiddleware; the model counts positions from 1, the code from 0
executeMiddleware(c, index, req, finalHandler) ==
    IF index > Len(c)
    THEN CallHandler(finalHandler, req)
    ELSE LET nextHandler == executeMiddleware(c, index + 1, req, finalHandler)
         IN  RunMiddleware(c[index], index, req, nextHandler)

\* Chain.Execute
Execute(c, req, finalHandler) ==
    IF Len(c) = 0
    THEN CallHandler(finalHandler, req)
    ELSE executeMiddleware(c, 1, req, finalHandler)

----------------------------------------------------------------------------
(* pkg/dispatcher: Dispatcher.Dispatch.  The request and the context the   *)
(* Processor passes are never nil.                                         *)

\* what Dispatch returns when the handler exists: what the chain returned
Dispatched(out) == [found |-> TRUE, resp |-> out.resp, err |-> out.err, trace |-> out.trace]

\* a Dispatch that sends a request without handler through the chain before
\* it answers method-not-found
DispatchMissRunsChain(hs, chain, request) ==
    IF hs[request.Method] = NoHandler
    THEN [found |-> FALSE,
          resp |-> Response("2.0", NilValue, NewMethodNotFoundError, request.ID),
          err |-> NoErr, trace |-> Execute(chain, request, "nilnil").trace]
    ELSE Dispatched(Execute(chain, request, hs[request.Method]))

Dispatch(hs, chain, request) ==
    IF hs[request.Method] = NoHandler
    THEN [found |-> FALSE,
          resp |-> Response("2.0", NilValue, NewMethodNotFoundError, request.ID),
          err |-> NoErr, trace |-> <<>>]
    ELSE Dispatched(Execute(chain, request, hs[request.Method]))

----------------------------------------------------------------------------
(* pkg/server: JSONRPCProcessor *)

\* an interface{} value: Go keeps the dynamic type next to the value, and an
\* interface holding a nil *JSONRPCResponse is not the nil interface
NilIface == [type |-> "nil"]
PtrIface(ptr) == [type |-> "*JSONRPCResponse", ptr |-> ptr]
SliceIface(elems) == [type |-> "[]*JSONRPCResponse", elems |-> elems]

\* strings.HasPrefix(method, "rpc.") on the method names of the model
HasRpcPrefix(method) == method \in {"rpc.discover"}

\* validateRequest without the test of the reserved prefix
validateRequestNoPrefix(req) ==
    IF req.JSONRPC # "2.0" THEN NewInvalidRequestError
    ELSE IF req.Method = "" THEN NewInvalidRequestError
    ELSE NilError

\* JSONRPCProcessor.validateRequest: the RPC error, or NilError
validateRequest(req) ==
    IF req.JSONRPC # "2.0" THEN NewInvalidRequestError
    ELSE IF req.Method = "" THEN NewInvalidRequestError
    ELSE IF HasRpcPrefix(req.Method) THEN NewMethodNotFoundError
    ELSE NilError

DispatchRecord(req, d) ==
    [request |-> req, found |-> d.found, resp |-> d.resp, err |-> d.err, trace |-> d.trace]

\* a processNotification that drops the notification without calling Dispatch
processNotificationDrops(hs, chain, req) ==
    [resp |-> NilResponse, log |-> <<>>]

\* JSONRPCProcessor.processNotification: response and error of Dispatch are dropped
processNotification(hs, chain, req) ==
    [resp |-> NilResponse, log |-> <<DispatchRecord(req, Dispatch(hs, chain, req))>>]

\* processRegularRequest without the assignment response.JSONRPC = "2.0"
processRegularRequestKeepsVersion(req, d) ==
    [resp |-> IF d.err # NoErr
              THEN Response("2.0", NilValue, NewInternalError(<<"Dispatcher error: ", d.err>>), req.ID)
              ELSE IF d.resp # NilResponse
              THEN [d.resp EXCEPT !.ID = req.ID]
              ELSE d.resp,
     log |-> <<DispatchRecord(req, d)>>]

\* JSONRPCProcessor.processRegularRequest, d being what the call
\* p.dispatcher.Dispatch(req, requestCtx) returned
processRegularRequest(req, d) ==
    [resp |-> IF d.err # NoErr
              THEN Response("2.0", NilValue, NewInternalError(<<"Dispatcher error: ", d.err>>), req.ID)
              ELSE IF d.resp # NilResponse
              THEN [d.resp EXCEPT !.JSONRPC = "2.0", !.ID = req.ID]
              ELSE d.resp,
     log |-> <<DispatchRecord(req, d)>>]

\* JSONRPCProcessor.ProcessSingleRequest: the *JSONRPCResponse it returns
\* and the Dispatch calls it made
ProcessSingleRequest(hs, chain, data) ==
    LET request == Unmarshal(data).request
    IN  IF Unmarshal(data).err
        THEN [resp |-> Response("2.0", NilValue, NewParseError, NilValue), log |-> <<>>]
        ELSE IF validateRequest(request) # NilError
        THEN [resp |-> Response("2.0", NilValue, validateRequest(request), request.ID), log |-> <<>>]
        ELSE IF IsNotification(request)
        THEN processNotification(hs, chain, request)
        ELSE processRegularRequest(request, Dispatch(hs, chain, request))

\* the body of the loop of ProcessBatchRequest: the response of one element
\* is appended unless it is nil
Collect(acc, r) ==
    [responses |-> IF r.resp # NilResponse THEN Append(acc.responses, r.resp) ELSE acc.responses,
     log |-> acc.log \o r.log]

RECURSIVE BatchLoop(_, _, _, _, _)
\* the loop of ProcessBatchRequest over rawRequests[i..]: the responses
\* appended and the Dispatch calls made
BatchLoop(hs, chain, rawRequests, i, acc) ==
    IF i > Len(rawRequests)
    THEN acc
    ELSE BatchLoop(hs, chain, rawRequests, i + 1,
                   Collect(acc, ProcessSingleRequest(hs, chain, rawRequests[i])))

\* the end of ProcessBatchRequest: nil when no response was collected
BatchResult(b) ==
    [val |-> IF Len(b.responses) = 0 THEN NilIface ELSE SliceIface(b.responses),
     log |-> b.log]

\* ProcessBatchRequest answering bytes that are no JSON array with an
\* invalid-request error
ProcessBatchRequestInvalid(hs, chain, data) ==
    IF data.k # "array"
    THEN [val |-> PtrIface(Response("2.0", NilValue, NewInvalidRequestError, NilValue)), log |-> <<>>]
    ELSE IF Len(data.elems) = 0
    THEN [val |-> PtrIface(Response("2.0", NilValue, NewInvalidRequestError, NilValue)), log |-> <<>>]
    ELSE BatchResult(BatchLoop(hs, chain, data.elems, 1, [responses |-> <<>>, log |-> <<>>]))

\* JSONRPCProcessor.ProcessBatchRequest: the interface{} it returns
ProcessBatchRequest(hs, chain, data) ==
    IF data.k # "array"
    THEN [val |-> PtrIface(Response("2.0", NilValue, NewParseError, NilValue)), log |-> <<>>]
    ELSE IF Len(data.elems) = 0
    THEN [val |-> PtrIface(Response("2.0", NilValue, NewInvalidRequestError, NilValue)), log |-> <<>>]
    ELSE BatchResult(BatchLoop(hs, chain, data.elems, 1, [responses |-> <<>>, log |-> <<>>]))

----------------------------------------------------------------------------
(* Request bytes.  A payload is one JSON text, possibly after whitespace.  *)

Versions == {"2.0", "1.0"}
Methods == {"echo", "nope", "", "rpc.discover"}

\* the method names handlers are registered and unregistered under
RegMethods == {"echo"}

IdTokens == {AbsentId, NullId, StrId("a"), Num(0, 1), Num(MantissaHi, 1)}

Object(jsonrpc, method, id) == [k |-> "object", jsonrpc |-> jsonrpc, method |-> method, id |-> id]

\* a JSON number, string or boolean in the place of an envelope
Scalar == [k |-> "scalar"]

\* bytes that are not JSON, beginning with the byte open
Invalid(open) == [k |-> "invalid", open |-> open]
Array(elems) == [k |-> "array", elems |-> elems]

\* every method and id under version "2.0", every id under another version,
\* and every method under another version
Envelopes ==
    {Object("2.0", m, id) : m \in Methods, id \in IdTokens}
    \cup {Object(v, "echo", id) : v \in Versions, id \in IdTokens}
    \cup {Object(v, m, StrId("a")) : v \in Versions, m \in Methods}

\* the elements batches are built from
BatchElems ==
    {Object("2.0", "echo", Num(0, 1)), Object("2.0", "echo", AbsentId),
     Object("2.0", "echo", NullId), Object("2.0", "nope", StrId("a"))}

SeqsUpTo(S, n) == UNION {[1..k -> S] : k \in 0..n}

Batches == {Array(e) : e \in SeqsUpTo(BatchElems, MaxBatch)}

JSONTexts == Envelopes \cup Batches \cup {Scalar, Invalid("{"), Invalid("[")}

Payload(ws, json) == [ws |-> ws, json |-> json]

Payloads ==
    {Payload(FALSE, j) : j \in JSONTexts}
    \cup {Payload(TRUE, Object("2.0", "echo", Num(0, 1))),
          Payload(TRUE, Array(<<Object("2.0", "echo", Num(0, 1))>>))}

\* an HTTP request body of length 0
EmptyBody == Payload(FALSE, [k |-> "empty"])

\* the first byte of a JSON text
FirstByte(json) ==
    CASE json.k = "array"   -> "["
      [] json.k = "object"  -> "{"
      [] json.k = "invalid" -> json.open
      [] OTHER              -> "1"

\* json.Marshal / Encoder.Encode / WriteJSON of the Processor's result
EncodeResult(v) ==
    CASE v.type = "*JSONRPCResponse" ->
            IF v.ptr = NilResponse
            THEN [k |-> "null"]
            ELSE [k |-> "object", body |-> EncodeResponse(v.ptr)]
      [] v.type = "[]*JSONRPCResponse" ->
            [k |-> "array", elems |-> [i \in 1..Len(v.elems) |-> EncodeResponse(v.elems[i])]]
      [] v.type = "nil" -> [k |-> "null"]

----------------------------------------------------------------------------
(* pkg/server: Server and its transports *)

\* the choice every transport makes between the two operations of the
\* Processor, and the assignment of what it returns to `var result
\* interface{}`
Process(hs, chain, batch, data) ==
    IF batch
    THEN ProcessBatchRequest(hs, chain, data)
    ELSE [val |-> PtrIface(ProcessSingleRequest(hs, chain, data).resp),
          log |-> ProcessSingleRequest(hs, chain, data).log]

\* The model serves one connection at a time, of transport HTTP, TCP or
\* WebSocket; HTTPS, TLS and Secure WebSocket connections run the same
\* functions under another label.

NoConn == [transport |-> "none", open |-> FALSE]

\* route: which Processor operation the transport chose for the payload
Message(transport, httpMethod, payload, route) ==
    [transport |-> transport, httpMethod |-> httpMethod, payload |-> payload, route |-> route]

NoMessage == Message("none", "", EmptyBody, "none")

Route(batch) == IF batch THEN "batch" ELSE "single"

\* sync.RWMutex: the goroutine holding the write lock (0 for none) and the
\* goroutines holding a read lock
RWMutex(writer, readers) == [writer |-> writer, readers |-> readers]

\* the goroutines that call the Dispatcher concurrently
Goroutines == 1 .. MaxGoroutines

\* a goroutine that is in no call of the Dispatcher
Idle == [op |-> "none", pc |-> "idle", method |-> "", handler |-> NoHandler, seen |-> NoHandler]

\* the calls of Process a run makes, in the order in which they begin
Tasks == 1 .. MaxTasks

\* a call of Process that has not begun
NoTask == [sub |-> "none", ctxErr |-> NoErr, late |-> FALSE, res |-> "", run |-> "none",
           panicked |-> FALSE]

\* Shutdown has not been called
NoShutdown == [pc |-> "idle", ctx |-> "none", waiter |-> "none", result |-> "",
               before |-> {}, expiredFirst |-> FALSE]

\* Server.Stop has not been called
NotStopped == [returned |-> FALSE, before |-> {}, connOpen |-> FALSE]

\* LoggingConfig, by the fields that decide what is logged and where
LoggingConfig(enabled, successOnly, include, exclude, destination) ==
    [Enabled |-> enabled, LogSuccessOnly |-> successOnly, IncludeMethods |-> include,
     ExcludeMethods |-> exclude, Destination |-> destination]

\* the configuration that main builds
MainConfig == LoggingConfig(TRUE, FALSE, <<>>, <<>>, "kafka")

\* a call number that no call through LoggingMiddleware has taken yet
NoLoggedCall == [pc |-> "none", method |-> "", handler |-> NoHandler,
                 down |-> <<>>, ret |-> <<>>, log |-> FALSE]

\* Logger.shouldLog has not been called directly
NoProbe == [method |-> "", success |-> FALSE, hasError |-> FALSE, result |-> FALSE]

\* msg, result, written, status and dispatchLog are the locals of the call
\* being served; they stay for inspection until the call is over.  An
\* action that serves no call runs between two calls, when the locals of
\* the call before it are gone.
NoCall ==
    /\ msg' = NoMessage
    /\ result' = NilIface
    /\ written' = <<>>
    /\ status' = 0
    /\ dispatchLog' = <<>>

\* the addresses of the Chain objects: the one NewServer installs and one
\* more that a caller built with NewChain()
ChainAddrs == {1, 2}

\* a Chain object; adding is the middleware an Add that has begun to write
\* c.middlewares is appending ("" when no Add is writing)
Chain(middlewares) == [middlewares |-> middlewares, adding |-> ""]

\* no call is inside Dispatch
NoFlight == [pc |-> "idle", c |-> 0, index |-> 0, ran |-> <<>>, atStart |-> <<>>, crashed |-> FALSE]

\* no call is passing through the chain
NoContextCall ==
    [pc |-> "idle", transport |-> "", chain |-> <<>>, index |-> 0, ctx |-> 0,
     seen |-> <<>>, logCtx |-> 0, atReturn |-> <<>>]

\* no LogEntry has been built
NoEntry == <<>>

\* a connection that was not accepted yet
NoConnection == [state |-> "none", transport |-> "", calls |-> 0]

\* a goroutine that has not called ProcessSingleRequest
NoCaller == [pc |-> "idle", transport |-> "", request |-> <<>>, ctx |-> 0,
             handler |-> NoHandler, saw |-> {}, resp |-> NilResponse]

\* a call of Process that no ProcessWithTimeout has made
NoTimed == [pc |-> "none", timeout |-> "pending", done |-> FALSE, inTime |-> FALSE,
            sawDone |-> FALSE, sawExpired |-> FALSE, res |-> ""]

\* NewMockAsyncProcessor()
NewMockAsyncProcessor == [processedFunctions |-> <<>>, processErrors |-> <<>>]

\* NewServer: the logging middleware is the whole chain, echo is registered
Init ==
    /\ handlers = [m \in Methods |-> IF m = "echo" THEN "ok" ELSE NoHandler]
    /\ middlewareChain = <<"pass">>
    /\ conn = NoConn
    /\ msg = NoMessage
    /\ result = NilIface
    /\ written = <<>>
    /\ status = 0
    /\ dispatchLog = <<>>
    /\ mu = RWMutex(0, {})
    /\ goroutines = [g \in Goroutines |-> Idle]
    /\ completed = handlers
    /\ asyncProcessor = [done |-> FALSE, wg |-> 0]
    /\ tasks = [i \in Tasks |-> NoTask]
    /\ shutdown = NoShutdown
    /\ process = "running"
    /\ stopped = NotStopped
    /\ logger = [config |-> MainConfig, async |-> TRUE]
    /\ loggedCalls = [i \in Tasks |-> NoLoggedCall]
    /\ sink = [i \in Tasks |-> <<>>]
    /\ probe = NoProbe
    /\ chainObjects = [a \in ChainAddrs |-> Chain(IF a = 1 THEN <<"pass">> ELSE <<>>)]
    /\ chainPointer = 1
    /\ inFlight = NoFlight
    /\ inbox = <<>>
    /\ sent = <<>>
    /\ served = <<>>
    /\ arrays = [a \in 1 .. MaxLists |-> <<>>]
    /\ lists = <<>>
    /\ clock = 0
    /\ contexts = <<>>
    /\ call = NoContextCall
    /\ entry = NoEntry
    /\ connections = [c \in 1 .. MaxConns |-> NoConnection]
    /\ writerClosed = FALSE
    /\ closedWrites = {}
    /\ callers = [g \in 1 .. MaxCallers |-> NoCaller]
    /\ timed = [i \in Tasks |-> NoTimed]
    /\ mock = NewMockAsyncProcessor
    /\ submitted = <<>>
    /\ given = [errs |-> <<>>, at |-> 0]
    /\ ran = <<>>
    /\ expected = <<>>

\* Dispatcher.RegisterHandler
RegisterHandler(method, handler) ==
    /\ handlers' = [handlers EXCEPT ![method] = handler]
    /\ completed' = [completed EXCEPT ![method] = handler]
    /\ UNCHANGED <<middlewareChain, conn, mu, goroutines, asyncVars, stopped, loggingVars, chainVars, streamVars, listVars, contextVars, connVars, closeVars, processorVars, timeoutVars, mockVars>>
    /\ NoCall

\* Dispatcher.UnregisterHandler
UnregisterHandler(method) ==
    /\ handlers' = [handlers EXCEPT ![method] = NoHandler]
    /\ completed' = [completed EXCEPT ![method] = NoHandler]
    /\ UNCHANGED <<middlewareChain, conn, mu, goroutines, asyncVars, stopped, loggingVars, chainVars, streamVars, listVars, contextVars, connVars, closeVars, processorVars, timeoutVars, mockVars>>
    /\ NoCall

\* Dispatcher.SetMiddleware
SetMiddleware(chain) ==
    /\ middlewareChain' = chain
    /\ UNCHANGED <<handlers, conn, registryVars, asyncVars, stopped, loggingVars, chainVars, streamVars, listVars, contextVars, connVars, closeVars, processorVars, timeoutVars, mockVars>>
    /\ NoCall

\* Server.handleHTTPRequest, on a connection net/http serves
handleHTTPRequest(httpMethod, body) ==
    /\ conn.open
    /\ conn.transport = "HTTP"
    /\ msg = NoMessage
    /\ UNCHANGED <<handlers, middlewareChain, conn, registryVars, asyncVars, stopped, loggingVars, chainVars, streamVars, listVars, contextVars, connVars, closeVars, processorVars, timeoutVars, mockVars>>
    /\ IF httpMethod = "OPTIONS"
       THEN /\ status' = 200
            /\ msg' = Message("HTTP", httpMethod, body, "none")
            /\ result' = NilIface
            /\ written' = <<>>
            /\ dispatchLog' = <<>>
       ELSE IF httpMethod # "POST"
       THEN /\ status' = 405
            /\ msg' = Message("HTTP", httpMethod, body, "none")
            /\ result' = NilIface
            /\ written' = <<>>
            /\ dispatchLog' = <<>>
       ELSE IF body = EmptyBody
       THEN /\ status' = 200
            /\ msg' = Message("HTTP", httpMethod, body, "none")
            /\ result' = NilIface
            /\ dispatchLog' = <<>>
            /\ written' = <<[k |-> "object",
                             body |-> EncodeResponse(Response("2.0", NilValue, NewInvalidRequestError, NilValue))]>>
       ELSE \E batch \in {~body.ws /\ FirstByte(body.json) = "["} :
            \E p \in {Process(handlers, middlewareChain, batch, body.json)} :
                /\ msg' = Message("HTTP", httpMethod, body, Route(batch))
                /\ result' = p.val
                /\ dispatchLog' = p.log
                /\ status' = 200
                /\ written' = IF \/ p.val = NilIface
                                 \/ p.val.type = "*JSONRPCResponse" /\ p.val.ptr = NilResponse
                                 \/ p.val.type = "[]*JSONRPCResponse" /\ Len(p.val.elems) = 0
                              THEN <<>>
                              ELSE <<EncodeResult(p.val)>>

\* startHTTP: ListenAndServe accepts a connection and serves its requests
startHTTP ==
    /\ ~conn.open
    /\ conn' = [transport |-> "HTTP", open |-> TRUE]
    /\ UNCHANGED <<handlers, middlewareChain, registryVars, asyncVars, stopped, loggingVars, chainVars, streamVars, listVars, contextVars, connVars, closeVars, processorVars, timeoutVars, mockVars>>
    /\ NoCall

\* startTCP: Accept and go handleTCPConnection(conn, "TCP")
startTCP ==
    /\ ~conn.open
    /\ conn' = [transport |-> "TCP", open |-> TRUE]
    /\ UNCHANGED <<handlers, middlewareChain, registryVars, asyncVars, stopped, loggingVars, chainVars, streamVars, listVars, contextVars, connVars, closeVars, processorVars, timeoutVars, mockVars>>
    /\ NoCall

\* Server.handleWebSocket: Upgrade and handleWebSocketConnection(conn, r, "WebSocket")
handleWebSocket ==
    /\ ~conn.open
    /\ conn' = [transport |-> "WebSocket", open |-> TRUE]
    /\ UNCHANGED <<handlers, middlewareChain, registryVars, asyncVars, stopped, loggingVars, chainVars, streamVars, listVars, contextVars, connVars, closeVars, processorVars, timeoutVars, mockVars>>
    /\ NoCall

\* a loop of handleTCPConnection that ends after the message it answered
TCPTurnOnce(payload, wok) ==
    /\ conn.open
    /\ conn.transport = "TCP"
    /\ msg = NoMessage
    /\ status' = 0
    /\ UNCHANGED <<handlers, middlewareChain>>
    /\ \E batch \in {FirstByte(payload.json) = "["} :
       \E p \in {Process(handlers, middlewareChain, batch, payload.json)} :
           /\ msg' = Message(conn.transport, "", payload, IF payload.json.k = "invalid" THEN "none" ELSE Route(batch))
           /\ result' = IF payload.json.k = "invalid" THEN NilIface ELSE p.val
           /\ dispatchLog' = IF payload.json.k = "invalid" THEN <<>> ELSE p.log
           /\ written' = IF payload.json.k # "invalid" /\ p.val # NilIface /\ wok
                         THEN <<EncodeResult(p.val)>>
                         ELSE <<>>
           /\ conn' = [conn EXCEPT !.open = FALSE]

\* one turn of the loop of Server.handleTCPConnection: Decode, process,
\* Encode.  wok says whether the write succeeds.
TCPTurn(payload, wok) ==
    /\ conn.open
    /\ conn.transport = "TCP"
    /\ msg = NoMessage
    /\ status' = 0
    /\ UNCHANGED <<handlers, middlewareChain>>
    /\ IF payload.json.k = "invalid"
       THEN \* decoder.Decode fails: break
            /\ msg' = Message(conn.transport, "", payload, "none")
            /\ conn' = [conn EXCEPT !.open = FALSE]
            /\ result' = NilIface
            /\ written' = <<>>
            /\ dispatchLog' = <<>>
       ELSE \E batch \in {FirstByte(payload.json) = "["} :
            \E p \in {Process(handlers, middlewareChain, batch, payload.json)} :
                /\ msg' = Message(conn.transport, "", payload, Route(batch))
                /\ result' = p.val
                /\ dispatchLog' = p.log
                /\ IF p.val # NilIface
                   THEN IF wok
                        THEN /\ written' = <<EncodeResult(p.val)>>
                             /\ UNCHANGED conn
                        ELSE /\ written' = <<>>
                             /\ conn' = [conn EXCEPT !.open = FALSE]
                   ELSE /\ written' = <<>>
                        /\ UNCHANGED conn

\* one turn of the loop of Server.handleWebSocketConnection: ReadMessage,
\* process, WriteJSON.  wok says whether the write succeeds.
WebSocketTurn(payload, wok) ==
    /\ conn.open
    /\ conn.transport = "WebSocket"
    /\ msg = NoMessage
    /\ status' = 0
    /\ UNCHANGED <<handlers, middlewareChain>>
    /\ \E batch \in {FirstByte(payload.json) = "["} :
       \E p \in {Process(handlers, middlewareChain, batch, payload.json)} :
           /\ msg' = Message(conn.transport, "", payload, Route(batch))
           /\ result' = p.val
           /\ dispatchLog' = p.log
           /\ IF p.val # NilIface
              THEN IF wok
                   THEN /\ written' = <<EncodeResult(p.val)>>
                        /\ UNCHANGED conn
                   ELSE /\ written' = <<>>
                        /\ conn' = [conn EXCEPT !.open = FALSE]
              ELSE /\ written' = <<>>
                   /\ UNCHANGED conn

\* the server is at the loop of handleTCPConnection and a message arrives
handleTCPConnection(payload, wok) ==
    /\ TCPTurn(payload, wok)
    /\ UNCHANGED <<registryVars, asyncVars, stopped, loggingVars, chainVars, streamVars, listVars, contextVars, connVars, closeVars, processorVars, timeoutVars, mockVars>>

\* the server is at the loop of handleWebSocketConnection and a message arrives
handleWebSocketConnection(payload, wok) ==
    /\ WebSocketTurn(payload, wok)
    /\ UNCHANGED <<registryVars, asyncVars, stopped, loggingVars, chainVars, streamVars, listVars, contextVars, connVars, closeVars, processorVars, timeoutVars, mockVars>>

\* the read of the connection fails (io.EOF on TCP, a close frame or a read
\* error on WebSocket, the client closing an HTTP connection): the loop
\* breaks and the connection is closed
ReadFails ==
    /\ conn.open
    /\ conn' = [conn EXCEPT !.open = FALSE]
    /\ UNCHANGED <<handlers, middlewareChain, registryVars, asyncVars, stopped, loggingVars, chainVars, streamVars, listVars, contextVars, connVars, closeVars, processorVars, timeoutVars, mockVars>>
    /\ NoCall

\* the call is over: the HTTP handler returns, the loop of a stream
\* connection goes back to its read, and the locals of the call are gone
EndOfCall ==
    /\ msg # NoMessage
    /\ UNCHANGED <<handlers, middlewareChain, conn, registryVars, asyncVars, stopped, loggingVars, chainVars, streamVars, listVars, contextVars, connVars, closeVars, processorVars, timeoutVars, mockVars>>
    /\ NoCall

HTTPMethods == {"POST", "GET", "OPTIONS"}

\* the chains the server is run with: none, or one middleware of each kind
ServerChains == {<<>>} \cup {<<k>> : k \in MiddlewareKinds}

Next ==
    \/ \E m \in RegMethods, h \in HandlerKinds : RegisterHandler(m, h)
    \/ \E m \in RegMethods : UnregisterHandler(m)
    \/ \E c \in ServerChains : SetMiddleware(c)
    \/ \E b \in Payloads \cup {EmptyBody} : handleHTTPRequest("POST", b)
    \/ \E hm \in HTTPMethods \ {"POST"} : handleHTTPRequest(hm, EmptyBody)
    \/ startHTTP
    \/ startTCP
    \/ handleWebSocket
    \/ \E p \in Payloads, wok \in BOOLEAN : handleTCPConnection(p, wok)
    \/ \E p \in Payloads, wok \in BOOLEAN : handleWebSocketConnection(p, wok)
    \/ ReadFails
    \/ EndOfCall

Spec == Init /\ [][Next]_vars

----------------------------------------------------------------------------
(* The dispatcher used on its own, as the tests of the chain and of the    *)
(* dispatcher use it: chains of up to MaxChain middlewares and direct      *)
(* calls of Dispatch.                                                      *)

ChainRequests ==
    {[JSONRPC |-> "2.0", Method |-> m, ID |-> id] :
        m \in {"echo", "nope"}, id \in {[t |-> "string", s |-> "test-1"], NilValue}}

\* a call d.Dispatch(request, ctx) made directly on the dispatcher
DispatchCall(request) ==
    /\ dispatchLog' = <<DispatchRecord(request, Dispatch(handlers, middlewareChain, request))>>
    /\ UNCHANGED <<handlers, middlewareChain, conn, msg, result, written, status, registryVars, asyncVars, stopped, loggingVars, chainVars, streamVars, listVars, contextVars, connVars, closeVars, processorVars, timeoutVars, mockVars>>

NextChain ==
    \/ \E m \in RegMethods, h \in HandlerKinds : RegisterHandler(m, h)
    \/ \E m \in RegMethods : UnregisterHandler(m)
    \/ \E c \in SeqsUpTo(MiddlewareKinds, MaxChain) : SetMiddleware(c)
    \/ \E r \in ChainRequests : DispatchCall(r)

SpecChain == Init /\ [][NextChain]_vars

----------------------------------------------------------------------------
(* The registry of the Dispatcher used by several goroutines at once.      *)
(* Every operation takes d.mu, acts on d.handlers and releases d.mu; a     *)
(* goroutine is at one of these places, and the scheduler interleaves      *)
(* them freely.                                                            *)

\* the handlers the concurrent goroutines register
RegistryHandlers == {"ok", "fail"}

\* the methods the concurrent goroutines look up
LookupMethods == {"echo", "nope"}

\* d.mu.Lock() returns when no goroutine holds the mutex
lockFree(m) == m.writer = 0 /\ m.readers = {}

\* a lookup that takes no read lock
rlockFreeUnguarded(m) == TRUE

\* d.mu.RLock() returns when no writer holds the mutex
rlockFree(m) == m.writer = 0

\* the rest of the server does not move while the registry is exercised
RegistryOnly ==
    UNCHANGED <<middlewareChain, conn, msg, result, written, status, dispatchLog, asyncVars, stopped, loggingVars, chainVars, streamVars, listVars, contextVars, connVars, closeVars, processorVars, timeoutVars, mockVars>>

\* RegisterHandler: d.mu.Lock()
RegisterLock(g, method, handler) ==
    /\ goroutines[g].pc = "idle"
    /\ lockFree(mu)
    /\ mu' = RWMutex(g, {})
    /\ goroutines' = [goroutines EXCEPT ![g] =
            [op |-> "register", pc |-> "locked", method |-> method, handler |-> handler,
             seen |-> NoHandler]]
    /\ UNCHANGED <<handlers, completed>>
    /\ RegistryOnly

\* UnregisterHandler: d.mu.Lock()
UnregisterLock(g, method) ==
    /\ goroutines[g].pc = "idle"
    /\ lockFree(mu)
    /\ mu' = RWMutex(g, {})
    /\ goroutines' = [goroutines EXCEPT ![g] =
            [op |-> "unregister", pc |-> "locked", method |-> method, handler |-> NoHandler,
             seen |-> NoHandler]]
    /\ UNCHANGED <<handlers, completed>>
    /\ RegistryOnly

\* d.handlers[method] = handler, or delete(d.handlers, method)
Store(g) ==
    /\ goroutines[g].pc = "locked"
    /\ handlers' = [handlers EXCEPT ![goroutines[g].method] = goroutines[g].handler]
    /\ goroutines' = [goroutines EXCEPT ![g].pc = "stored"]
    /\ UNCHANGED <<mu, completed>>
    /\ RegistryOnly

\* the deferred d.mu.Unlock() and the return of the operation
Unlock(g) ==
    /\ goroutines[g].pc = "stored"
    /\ mu' = RWMutex(0, mu.readers)
    /\ completed' = [completed EXCEPT ![goroutines[g].method] = goroutines[g].handler]
    /\ goroutines' = [goroutines EXCEPT ![g] = Idle]
    /\ UNCHANGED handlers
    /\ RegistryOnly

\* Dispatch: d.mu.RLock()
DispatchRLock(g, method) ==
    /\ goroutines[g].pc = "idle"
    /\ rlockFree(mu)
    /\ mu' = RWMutex(mu.writer, mu.readers \cup {g})
    /\ goroutines' = [goroutines EXCEPT ![g] =
            [op |-> "dispatch", pc |-> "rlocked", method |-> method, handler |-> NoHandler,
             seen |-> NoHandler]]
    /\ UNCHANGED <<handlers, completed>>
    /\ RegistryOnly

\* Dispatch: handler, exists := d.handlers[request.Method]
DispatchLookup(g) ==
    /\ goroutines[g].pc = "rlocked"
    /\ goroutines' = [goroutines EXCEPT ![g].pc = "looked",
                                        ![g].seen = handlers[goroutines[g].method]]
    /\ UNCHANGED <<handlers, mu, completed>>
    /\ RegistryOnly

\* Dispatch: d.mu.RUnlock(); the lookup is over
DispatchRUnlock(g) ==
    /\ goroutines[g].pc = "looked"
    /\ mu' = RWMutex(mu.writer, mu.readers \ {g})
    /\ goroutines' = [goroutines EXCEPT ![g] = Idle]
    /\ UNCHANGED <<handlers, completed>>
    /\ RegistryOnly

NextRegistry ==
    \/ \E g \in Goroutines, m \in RegMethods, h \in RegistryHandlers : RegisterLock(g, m, h)
    \/ \E g \in Goroutines, m \in RegMethods : UnregisterLock(g, m)
    \/ \E g \in Goroutines : Store(g)
    \/ \E g \in Goroutines : Unlock(g)
    \/ \E g \in Goroutines, m \in LookupMethods : DispatchRLock(g, m)
    \/ \E g \in Goroutines : DispatchLookup(g)
    \/ \E g \in Goroutines : DispatchRUnlock(g)

SpecRegistry == Init /\ [][NextRegistry]_vars

----------------------------------------------------------------------------
(* pkg/middleware: DefaultAsyncProcessor.  Process and Shutdown are called *)
(* by any goroutine; every accepted fn runs in a goroutine of its own.     *)
(* The scheduler interleaves the statements of all of them freely.         *)

\* context.Canceled and context.DeadlineExceeded, by their messages
Canceled == "context canceled"
DeadlineExceeded == "context deadline exceeded"

\* what ctx.Err() of the per-call context is when Process is called
CtxErrs == {NoErr, DeadlineExceeded}

\* the context handed to Shutdown: context.Background(), a deadline that
\* lies ahead, or one that has passed already
ShutdownCtxs == {"none", "pending", "expired"}

\* the select of Process with the lifetime context left out
ProcessSelectNoLifetime(pdone, ctxErr) == {ctxErr}

\* the select of Process: the errors of the cases that are ready, one of
\* which Go picks at random; default (NoErr) only when none is ready
ProcessSelect(pdone, ctxErr) ==
    IF pdone \/ ctxErr # NoErr
    THEN {e \in {Canceled, ctxErr} : (e = Canceled /\ pdone) \/ (e = ctxErr /\ ctxErr # NoErr)}
    ELSE {NoErr}

\* a goroutine body that lets the panic of fn go up
goroutineExitUnguarded(panics) == [crash |-> panics, wgDone |-> TRUE]

\* the end of the goroutine of Process, fn having returned or panicked:
\* the deferred recover() stops a panic, the deferred p.wg.Done() runs
goroutineExit(panics) == [crash |-> FALSE, wgDone |-> TRUE]

\* a waiter that closes done without waiting
wgWaitReturnsAtOnce(n) == TRUE

\* p.wg.Wait() returns when the counter is zero
wgWaitReturns(n) == n = 0

\* the select of Shutdown: the results of the cases that are ready
ShutdownSelect(waiter, ctx) ==
    {r \in {NoErr, DeadlineExceeded} :
        (r = NoErr /\ waiter = "closed") \/ (r = DeadlineExceeded /\ ctx = "expired")}

\* the fns whose Process has returned nil
Accepted == {i \in Tasks : tasks[i].sub = "returned" /\ tasks[i].res = NoErr}

\* the accepted fns among `among` that have not finished
Pending(among) == {i \in among : tasks[i].run # "done"}

\* the rest of the server does not move while the pipeline is exercised
AsyncOnly == UNCHANGED <<serverVars, registryVars, stopped, loggingVars, chainVars, streamVars, listVars, contextVars, connVars, closeVars, processorVars, timeoutVars, mockVars>>

\* the select of Process is evaluated for call i
ProcessCall(i, ctxErr) ==
    /\ process = "running"
    /\ tasks[i].sub = "none"
    /\ \E e \in ProcessSelect(asyncProcessor.done, ctxErr) :
          tasks' = [tasks EXCEPT ![i] =
                [sub |-> IF e = NoErr THEN "add" ELSE "returned",
                 ctxErr |-> ctxErr, late |-> asyncProcessor.done,
                 res |-> IF e = NoErr THEN "" ELSE e,
                 run |-> "none", panicked |-> FALSE]]
    /\ UNCHANGED <<asyncProcessor, shutdown, process>>

\* DefaultAsyncProcessor.Process(ctx, fn) is called and its select is evaluated
ProcessAsync(i, ctxErr) ==
    /\ \A j \in 1 .. (i - 1) : tasks[j].sub # "none"
    /\ ProcessCall(i, ctxErr)
    /\ AsyncOnly

\* Process: p.wg.Add(1)
ProcessAdd(i) ==
    /\ process = "running"
    /\ tasks[i].sub = "add"
    /\ asyncProcessor' = [asyncProcessor EXCEPT !.wg = @ + 1]
    /\ tasks' = [tasks EXCEPT ![i].sub = "go"]
    /\ UNCHANGED <<shutdown, process>>
    /\ AsyncOnly

\* Process: go func() { ... }()
ProcessGo(i) ==
    /\ process = "running"
    /\ tasks[i].sub = "go"
    /\ tasks' = [tasks EXCEPT ![i].sub = "return", ![i].run = "ready"]
    /\ UNCHANGED <<asyncProcessor, shutdown, process>>
    /\ AsyncOnly

\* Process: return nil
ProcessReturn(i) ==
    /\ process = "running"
    /\ tasks[i].sub = "return"
    /\ tasks' = [tasks EXCEPT ![i].sub = "returned", ![i].res = NoErr]
    /\ UNCHANGED <<asyncProcessor, shutdown, process>>
    /\ AsyncOnly

\* the goroutine of Process is scheduled and calls fn()
Start(i) ==
    /\ process = "running"
    /\ tasks[i].run = "ready"
    /\ tasks' = [tasks EXCEPT ![i].run = "running"]
    /\ UNCHANGED <<asyncProcessor, shutdown, process>>
    /\ AsyncOnly

\* fn() returns or panics and the goroutine ends; the Done that brings the
\* counter to zero wakes a blocked p.wg.Wait(), whose goroutine closes done,
\* which in turn wakes a Shutdown blocked in its select
FinishTask(i, panics) ==
    /\ process = "running"
    /\ tasks[i].run = "running"
    /\ tasks' = [tasks EXCEPT ![i].run = "done", ![i].panicked = panics]
    /\ \E e \in {goroutineExit(panics)} :
       \E n \in {IF e.wgDone THEN asyncProcessor.wg - 1 ELSE asyncProcessor.wg} :
       \E woken \in {shutdown.waiter = "blocked" /\ wgWaitReturns(n)} :
          /\ process' = IF e.crash THEN "crashed" ELSE "running"
          /\ asyncProcessor' = [asyncProcessor EXCEPT !.wg = n]
          /\ shutdown' =
                IF ~woken
                THEN shutdown
                ELSE IF shutdown.pc = "blocked"
                THEN [shutdown EXCEPT !.waiter = "closed", !.pc = "returned", !.result = NoErr]
                ELSE [shutdown EXCEPT !.waiter = "closed"]

\* the goroutine of a fn that does not touch the Logger ends
Finish(i, panics) ==
    /\ FinishTask(i, panics)
    /\ AsyncOnly

\* Shutdown(ctx) is called: p.cancel(), done := make(chan struct{}) and the
\* go statement of the waiter
Shutdown(ctx) ==
    /\ process = "running"
    /\ shutdown.pc = "idle"
    /\ asyncProcessor' = [asyncProcessor EXCEPT !.done = TRUE]
    /\ shutdown' = [pc |-> "select", ctx |-> ctx, waiter |-> "spawned", result |-> "",
                    before |-> Accepted,
                    expiredFirst |-> ctx = "expired" /\ Pending(Accepted) # {}]
    /\ UNCHANGED <<tasks, process>>
    /\ AsyncOnly

\* the waiter goroutine of Shutdown: p.wg.Wait() and, when it returns at
\* once, close(done)
Wait ==
    /\ process = "running"
    /\ shutdown.waiter = "spawned"
    /\ shutdown' =
          IF ~wgWaitReturns(asyncProcessor.wg)
          THEN [shutdown EXCEPT !.waiter = "blocked"]
          ELSE IF shutdown.pc = "blocked"
          THEN [shutdown EXCEPT !.waiter = "closed", !.pc = "returned", !.result = NoErr]
          ELSE [shutdown EXCEPT !.waiter = "closed"]
    /\ UNCHANGED <<asyncProcessor, tasks, process>>
    /\ AsyncOnly

\* Shutdown reaches its select: it returns by a case that is ready, or blocks
Select ==
    /\ process = "running"
    /\ shutdown.pc = "select"
    /\ IF ShutdownSelect(shutdown.waiter, shutdown.ctx) = {}
       THEN shutdown' = [shutdown EXCEPT !.pc = "blocked"]
       ELSE \E r \in ShutdownSelect(shutdown.waiter, shutdown.ctx) :
               shutdown' = [shutdown EXCEPT !.pc = "returned", !.result = r]
    /\ UNCHANGED <<asyncProcessor, tasks, process>>
    /\ AsyncOnly

\* the deadline of the context handed to Shutdown passes; a Shutdown blocked
\* in its select returns ctx.Err()
DeadlineExpires ==
    /\ process = "running"
    /\ shutdown.ctx = "pending"
    /\ shutdown.pc # "returned"
    /\ shutdown' =
          [shutdown EXCEPT !.ctx = "expired",
                           !.expiredFirst = Pending(shutdown.before) # {},
                           !.pc = IF @ = "blocked" THEN "returned" ELSE @,
                           !.result = IF shutdown.pc = "blocked" THEN DeadlineExceeded ELSE @]
    /\ UNCHANGED <<asyncProcessor, tasks, process>>
    /\ AsyncOnly

NextAsync ==
    \/ \E i \in Tasks, e \in CtxErrs : ProcessAsync(i, e)
    \/ \E i \in Tasks : ProcessAdd(i)
    \/ \E i \in Tasks : ProcessGo(i)
    \/ \E i \in Tasks : ProcessReturn(i)
    \/ \E i \in Tasks : Start(i)
    \/ \E i \in Tasks, panics \in BOOLEAN : Finish(i, panics)
    \/ \E c \in ShutdownCtxs : Shutdown(c)
    \/ Wait
    \/ Select
    \/ DeadlineExpires

SpecAsync == Init /\ [][NextAsync]_vars

\* The scheduler of Go runs every runnable goroutine eventually, and a
\* submitted fn ends (by returning or by panicking).
FairAsync ==
    /\ SpecAsync
    /\ \A i \in Tasks :
          /\ WF_vars(ProcessAdd(i))
          /\ WF_vars(ProcessGo(i))
          /\ WF_vars(ProcessReturn(i))
          /\ WF_vars(Start(i))
          /\ WF_vars(\E panics \in BOOLEAN : Finish(i, panics))
    /\ WF_vars(Wait)
    /\ WF_vars(Select)

----------------------------------------------------------------------------
(* Server.Stop, called while the pipeline of the Logger has tasks and the  *)
(* listeners accept connections.                                           *)

\* the calls of Process that have been accepted or are being accepted
Submitted == {i \in Tasks : tasks[i].sub \in {"add", "go", "return"}} \cup Accepted

\* Server.Stop: the body is `return nil`
Stop ==
    /\ process = "running"
    /\ ~stopped.returned
    /\ stopped' = [returned |-> TRUE, before |-> Submitted, connOpen |-> conn.open]
    /\ UNCHANGED <<serverVars, registryVars, asyncVars, loggingVars, chainVars, streamVars, listVars, contextVars, connVars, closeVars, processorVars, timeoutVars, mockVars>>

NextStop ==
    \/ NextAsync
    \/ Stop
    \/ startTCP
    \/ ReadFails

SpecStop == Init /\ [][NextStop]_vars

----------------------------------------------------------------------------
(* pkg/middleware: Logger and LoggingMiddleware.  Calls pass through the   *)
(* middleware one after the other, as on one connection; the log tasks     *)
(* they submit run in the goroutines of the pipeline, beside later calls.  *)

\* the methods that calls and filter lists name
LogMethods == {"echo", "nope"}

\* what the next handler of a logged call does
LogHandlers == {"ok", "rpcerr", "fail"}

\* every LoggingConfig with filter lists of at most MaxFilter methods
LoggingConfigs ==
    {LoggingConfig(e, o, inc, exc, "kafka") :
        e \in BOOLEAN, o \in BOOLEAN,
        inc \in SeqsUpTo(LogMethods, MaxFilter), exc \in SeqsUpTo(LogMethods, MaxFilter)}

\* the configurations the server is run with: that of main, that of
\* DefaultLoggingConfig, logging disabled, and a stdout logger with a filter
ServerConfigs ==
    {MainConfig,
     LoggingConfig(TRUE, TRUE, <<>>, <<>>, "kafka"),
     LoggingConfig(FALSE, FALSE, <<>>, <<>>, "kafka"),
     LoggingConfig(TRUE, FALSE, <<>>, <<"nope">>, "stdout")}

RECURSIVE rangeFinds(_, _, _)
\* for _, method := range list { if method == req.Method { ... } }, from
\* position i on: whether the body of the if is reached
rangeFinds(list, method, i) ==
    IF i > Len(list)
    THEN FALSE
    ELSE IF list[i] = method
    THEN TRUE
    ELSE rangeFinds(list, method, i + 1)

\* shouldLog with the exclude list looked at only when there is no include list
shouldLogExcludeInElse(config, method, success, hasError) ==
    IF ~config.Enabled
    THEN FALSE
    ELSE IF config.LogSuccessOnly /\ (~success \/ hasError)
    THEN FALSE
    ELSE IF Len(config.IncludeMethods) > 0
    THEN rangeFinds(config.IncludeMethods, method, 1)
    ELSE ~rangeFinds(config.ExcludeMethods, method, 1)

\* Logger.shouldLog
shouldLog(config, method, success, hasError) ==
    IF ~config.Enabled
    THEN FALSE
    ELSE IF config.LogSuccessOnly /\ (~success \/ hasError)
    THEN FALSE
    ELSE IF Len(config.IncludeMethods) > 0 /\ ~rangeFinds(config.IncludeMethods, method, 1)
    THEN FALSE
    ELSE IF rangeFinds(config.ExcludeMethods, method, 1)
    THEN FALSE
    ELSE TRUE

\* LoggingMiddleware: success := err == nil && (response == nil || response.Error == nil)
Success(down) == down.err = NoErr /\ (down.resp = NilResponse \/ down.resp.Error = NilError)

\* LoggingMiddleware: hasError := err != nil || (response != nil && response.Error != nil)
HasError(down) == down.err # NoErr \/ (down.resp # NilResponse /\ down.resp.Error # NilError)

\* a middleware that hands the error of Process to its caller
LoggingMiddlewareReturnsSubmitError(down, processErr) ==
    [resp |-> down.resp, err |-> IF processErr \in {NoErr, ""} THEN down.err ELSE processErr]

\* LoggingMiddleware: return response, err.  processErr is what
\* logger.asyncProcessor.Process returned ("" when it was not called)
LoggingMiddleware(down, processErr) == [resp |-> down.resp, err |-> down.err]

\* a middleware that decides about logging before it calls next
LoggingStartDecides == "decide"

\* the first statement of the middleware: response, err := next(req, ctx)
LoggingStart == "next"

\* a logEntry that falls back to stdout whatever the configured destination
logEntryAlwaysFallsBack(config, writeOk, fallbackOk) ==
    IF ~config.Enabled
    THEN <<>>
    ELSE IF writeOk
    THEN <<[to |-> config.Destination, ok |-> TRUE]>>
    ELSE <<[to |-> config.Destination, ok |-> FALSE], [to |-> "stdout", ok |-> fallbackOk]>>

\* Logger.logEntry: the writes it makes, in order.  The Logger of a disabled
\* configuration has no writer.
logEntry(config, writeOk, fallbackOk) ==
    IF ~config.Enabled
    THEN <<>>
    ELSE IF writeOk
    THEN <<[to |-> config.Destination, ok |-> TRUE]>>
    ELSE IF config.Destination # "stdout"
    THEN <<[to |-> config.Destination, ok |-> FALSE], [to |-> "stdout", ok |-> fallbackOk]>>
    ELSE <<[to |-> config.Destination, ok |-> FALSE]>>

\* the request of logged call i
LoggedRequest(i) ==
    [JSONRPC |-> "2.0", Method |-> loggedCalls[i].method, ID |-> [t |-> "string", s |-> "test-1"]]

\* what next returned to the middleware in call i; (nil, nil) before it has
Down(i) ==
    IF loggedCalls[i].down = <<>>
    THEN [resp |-> NilResponse, err |-> NoErr]
    ELSE loggedCalls[i].down

\* the rest of the server does not move while calls are logged
LoggingOnly == UNCHANGED <<serverVars, registryVars, stopped, chainVars, streamVars, listVars, contextVars, connVars, closeVars, processorVars, timeoutVars, mockVars>>

\* the same for the actions that touch the LogWriter
LoggingAndWriter == UNCHANGED <<serverVars, registryVars, stopped, chainVars, streamVars, listVars, contextVars, connVars, processorVars, timeoutVars, mockVars>>

\* NewLoggerWithDependencies(config, asyncProcessor, clock), before any call
NewLoggerWithDependencies(config, async) ==
    /\ \A i \in Tasks : loggedCalls[i].pc = "none" /\ tasks[i].sub = "none"
    /\ shutdown.pc = "idle"
    /\ ~writerClosed
    /\ logger' = [config |-> config, async |-> async]
    /\ probe' = NoProbe
    /\ UNCHANGED <<loggedCalls, sink, asyncVars>>
    /\ LoggingOnly

\* a direct call of logger.shouldLog(req, success, hasError)
CallShouldLog(method, success, hasError) ==
    /\ probe' = [method |-> method, success |-> success, hasError |-> hasError,
                 result |-> shouldLog(logger.config, method, success, hasError)]
    /\ UNCHANGED <<logger, loggedCalls, sink, asyncVars>>
    /\ LoggingOnly

\* call i enters the middleware
LoggingEnter(i, method, handler) ==
    /\ process = "running"
    /\ loggedCalls[i].pc = "none"
    /\ \A j \in 1 .. (i - 1) : loggedCalls[j].pc = "done"
    /\ loggedCalls' = [loggedCalls EXCEPT ![i] =
            [NoLoggedCall EXCEPT !.pc = LoggingStart, !.method = method, !.handler = handler]]
    /\ UNCHANGED <<logger, sink, probe, asyncVars>>
    /\ LoggingOnly

\* next(req, ctx) returns to the middleware
NextReturns(i) ==
    /\ process = "running"
    /\ loggedCalls[i].pc = "next"
    /\ \E out \in {CallHandler(loggedCalls[i].handler, LoggedRequest(i))} :
          loggedCalls' = [loggedCalls EXCEPT ![i].pc = "decide",
                                            ![i].down = [resp |-> out.resp, err |-> out.err]]
    /\ UNCHANGED <<logger, sink, probe, asyncVars>>
    /\ LoggingOnly

\* a middleware that writes the entry at once whenever the call is logged,
\* and hands a task to the pipeline as well
LoggingDecideWritesAtOnce(i, writeOk, fallbackOk) ==
    /\ process = "running"
    /\ loggedCalls[i].pc = "decide"
    /\ \E log \in {shouldLog(logger.config, loggedCalls[i].method, Success(Down(i)), HasError(Down(i)))} :
          /\ loggedCalls' = [loggedCalls EXCEPT
                ![i].log = log,
                ![i].pc = IF log /\ logger.async THEN "process" ELSE "return"]
          /\ sink' = IF log
                     THEN [sink EXCEPT ![i] = logEntry(logger.config, writeOk, fallbackOk)]
                     ELSE sink
    /\ UNCHANGED <<logger, probe, asyncVars>>
    /\ LoggingOnly

\* if logger.shouldLog(req, success, hasError) { ... }: without an
\* AsyncProcessor the entry is built and written at once
LoggingDecide(i, writeOk, fallbackOk) ==
    /\ process = "running"
    /\ loggedCalls[i].pc = "decide"
    /\ \E log \in {shouldLog(logger.config, loggedCalls[i].method, Success(Down(i)), HasError(Down(i)))} :
          /\ loggedCalls' = [loggedCalls EXCEPT
                ![i].log = log,
                ![i].pc = IF log /\ logger.async THEN "process" ELSE "return"]
          /\ sink' = IF log /\ ~logger.async
                     THEN [sink EXCEPT ![i] = logEntry(logger.config, writeOk, fallbackOk)]
                     ELSE sink
    /\ UNCHANGED <<logger, probe, asyncVars>>
    /\ LoggingOnly

\* logger.asyncProcessor.Process(context.Background(), func() { ... })
LoggingProcess(i) ==
    /\ loggedCalls[i].pc = "process"
    /\ ProcessCall(i, NoErr)
    /\ loggedCalls' = [loggedCalls EXCEPT ![i].pc = "submit"]
    /\ UNCHANGED <<logger, sink, probe>>
    /\ LoggingOnly

\* return response, err
LoggingReturn(i) ==
    /\ process = "running"
    /\ \/ loggedCalls[i].pc = "return"
       \/ loggedCalls[i].pc = "submit" /\ tasks[i].sub = "returned"
    /\ loggedCalls' = [loggedCalls EXCEPT
            ![i].pc = "done",
            ![i].ret = LoggingMiddleware(Down(i), tasks[i].res)]
    /\ UNCHANGED <<logger, sink, probe, asyncVars>>
    /\ LoggingOnly

\* the closure of the middleware runs in its goroutine: createLogEntry,
\* logEntry, and the end of the goroutine
RunLogTask(i, writeOk, fallbackOk) ==
    /\ FinishTask(i, FALSE)
    /\ sink' = [sink EXCEPT ![i] = logEntry(logger.config, writeOk, fallbackOk)]
    /\ closedWrites' = IF writerClosed /\ logEntry(logger.config, writeOk, fallbackOk) # <<>>
                       THEN closedWrites \cup {i}
                       ELSE closedWrites
    /\ UNCHANGED <<logger, loggedCalls, probe, writerClosed>>
    /\ LoggingAndWriter

\* Logger.Close: l.asyncProcessor.Shutdown(ctx) with a deadline 10 s ahead
LoggerClose ==
    /\ logger.async
    /\ Shutdown("pending")

NextLog ==
    \/ \E c \in ServerConfigs, a \in BOOLEAN : NewLoggerWithDependencies(c, a)
    \/ \E i \in Tasks, m \in LogMethods, h \in LogHandlers : LoggingEnter(i, m, h)
    \/ \E i \in Tasks : NextReturns(i)
    \/ \E i \in Tasks, w \in BOOLEAN, f \in BOOLEAN : LoggingDecide(i, w, f)
    \/ \E i \in Tasks : LoggingProcess(i)
    \/ \E i \in Tasks : ProcessAdd(i)
    \/ \E i \in Tasks : ProcessGo(i)
    \/ \E i \in Tasks : ProcessReturn(i)
    \/ \E i \in Tasks : LoggingReturn(i)
    \/ \E i \in Tasks : Start(i)
    \/ \E i \in Tasks, w \in BOOLEAN, f \in BOOLEAN : RunLogTask(i, w, f)
    \/ LoggerClose

SpecLog == Init /\ [][NextLog]_vars

\* Logger.Close after its Shutdown: l.writer.Close().  Without an
\* AsyncProcessor it is all that Close does.
WriterClose ==
    /\ process = "running"
    /\ ~writerClosed
    /\ logger.async => shutdown.pc = "returned"
    /\ writerClosed' = TRUE
    /\ UNCHANGED <<closedWrites, loggingVars, asyncVars>>
    /\ LoggingAndWriter

\* the calls that are logged while another goroutine closes the Logger
NextClose ==
    \/ NextLog
    \/ Wait
    \/ Select
    \/ DeadlineExpires
    \/ WriterClose

SpecClose == Init /\ [][NextClose]_vars

\* Logger.shouldLog called directly, as its test calls it, for every
\* configuration
NextShouldLog ==
    \/ \E c \in LoggingConfigs : NewLoggerWithDependencies(c, TRUE)
    \/ \E m \in LogMethods, s \in BOOLEAN, e \in BOOLEAN : CallShouldLog(m, s, e)

SpecShouldLog == Init /\ [][NextShouldLog]_vars

----------------------------------------------------------------------------
(* The chain of the Dispatcher replaced and extended while a call runs     *)
(* through it.  SetMiddleware stores a pointer and Dispatch loads it, both *)
(* without d.mu; Chain.Add stores c.middlewares and executeMiddleware      *)
(* loads it at every level, without any lock.  A pointer is one word, so a *)
(* load sees the old or the new one.  A slice is three words: a load that  *)
(* runs while Add stores sees the old slice, the new one, or a mixture of  *)
(* their words, and indexing a mixture reads outside the array.            *)

\* what a load of c.middlewares can return for the Chain at address a
Loads(a) ==
    IF chainObjects[a].adding = ""
    THEN {chainObjects[a].middlewares}
    ELSE {chainObjects[a].middlewares,
          Append(chainObjects[a].middlewares, chainObjects[a].adding)}

\* only the chain and the call inside it move
ChainOnly ==
    UNCHANGED <<handlers, conn, msg, result, written, status, dispatchLog,
                registryVars, asyncVars, stopped, loggingVars, streamVars, listVars, contextVars, connVars, closeVars, processorVars, timeoutVars, mockVars>>

\* SetMiddleware: d.middlewareChain = chain
SetMiddlewarePointer(a) ==
    /\ chainPointer # a
    /\ chainPointer' = a
    /\ middlewareChain' = chainObjects[a].middlewares
    /\ UNCHANGED <<chainObjects, inFlight>>
    /\ ChainOnly

\* Chain.Add: append(c.middlewares, middleware) is computed and the store
\* to c.middlewares begins
AddStore(a, middleware) ==
    /\ chainObjects[a].adding = ""
    /\ Len(chainObjects[a].middlewares) < MaxChain
    /\ chainObjects' = [chainObjects EXCEPT ![a].adding = middleware]
    /\ UNCHANGED <<middlewareChain, chainPointer, inFlight>>
    /\ ChainOnly

\* Chain.Add: the store to c.middlewares is complete; return c
AddReturn(a) ==
    /\ chainObjects[a].adding # ""
    /\ chainObjects' = [chainObjects EXCEPT
            ![a] = Chain(Append(chainObjects[a].middlewares, chainObjects[a].adding))]
    /\ middlewareChain' = chainObjects'[chainPointer].middlewares
    /\ UNCHANGED <<chainPointer, inFlight>>
    /\ ChainOnly

\* Dispatch, its handler found: d.middlewareChain is loaded and Execute is
\* called on it
DispatchExecute ==
    /\ inFlight.pc = "idle"
    /\ inFlight' = [NoFlight EXCEPT !.pc = "level", !.c = chainPointer, !.index = 1,
                                    !.atStart = chainObjects[chainPointer].middlewares]
    /\ UNCHANGED <<middlewareChain, chainObjects, chainPointer>>
    /\ ChainOnly

\* executeMiddleware(index, ...): past the end of the slice it loads, the
\* final handler runs; otherwise the middleware at index runs, and calls
\* nextHandler unless it answers by itself
executeMiddlewareLevel(c) ==
    /\ inFlight.pc = "level"
    /\ c \in Loads(inFlight.c)
    /\ inFlight' =
          IF inFlight.index > Len(c)
          THEN [inFlight EXCEPT !.pc = "done"]
          ELSE [inFlight EXCEPT
                  !.ran = Append(@, c[inFlight.index]),
                  !.index = @ + 1,
                  !.pc = IF c[inFlight.index] = "skip" THEN "done" ELSE "level"]
    /\ UNCHANGED <<middlewareChain, chainObjects, chainPointer>>
    /\ ChainOnly

\* executeMiddleware loads words of two different slices while Add stores:
\* c.middlewares[index] is read outside the array and the call ends in a
\* panic or runs whatever it found there
executeMiddlewareTorn ==
    /\ inFlight.pc = "level"
    /\ chainObjects[inFlight.c].adding # ""
    /\ inFlight' = [inFlight EXCEPT !.pc = "done", !.crashed = TRUE]
    /\ UNCHANGED <<middlewareChain, chainObjects, chainPointer>>
    /\ ChainOnly

\* Dispatch returns what Execute returned; the next call may start
DispatchReturn ==
    /\ inFlight.pc = "done"
    /\ inFlight' = NoFlight
    /\ UNCHANGED <<middlewareChain, chainObjects, chainPointer>>
    /\ ChainOnly

NextReplace ==
    \/ \E a \in ChainAddrs : SetMiddlewarePointer(a)
    \/ \E a \in ChainAddrs, k \in MiddlewareKinds : AddStore(a, k)
    \/ \E a \in ChainAddrs : AddReturn(a)
    \/ DispatchExecute
    \/ \E c \in SeqsUpTo(MiddlewareKinds, MaxChain) : executeMiddlewareLevel(c)
    \/ executeMiddlewareTorn
    \/ DispatchReturn

SpecReplace == Init /\ [][NextReplace]_vars

----------------------------------------------------------------------------
(* One stream connection and the messages a client sends on it.  The       *)
(* client may send a message before the answer to the one before it has    *)
(* arrived; the loop of the connection takes them from the stream one by   *)
(* one.                                                                    *)

\* what the client sends: a call, a call of an unregistered method, a
\* notification, a batch of one notification, and bytes that are not JSON
StreamPayloads ==
    {Payload(FALSE, Object("2.0", "echo", StrId("a"))),
     Payload(FALSE, Object("2.0", "nope", StrId("a"))),
     Payload(FALSE, Object("2.0", "echo", AbsentId)),
     Payload(FALSE, Array(<<Object("2.0", "echo", AbsentId)>>)),
     Payload(FALSE, Invalid("{"))}

\* the rest of the program does not move while the connection is served
StreamOnly == UNCHANGED <<registryVars, asyncVars, stopped, loggingVars, chainVars, listVars, contextVars, connVars, closeVars, processorVars, timeoutVars, mockVars>>

\* startTCP accepts the connection of a client that has sent nothing yet
AcceptTCP == sent = <<>> /\ startTCP

\* handleWebSocket upgrades the connection of a client that has sent nothing yet
AcceptWebSocket == sent = <<>> /\ handleWebSocket

\* the client writes a message to the connection
ClientSends(payload) ==
    /\ conn.open
    /\ Len(sent) < MaxMessages
    /\ inbox' = Append(inbox, payload)
    /\ sent' = Append(sent, payload)
    /\ UNCHANGED <<serverVars, served>>
    /\ StreamOnly

\* what a turn of the loop made of the message it read
Served(payload) ==
    [payload |-> payload, route |-> msg'.route, result |-> result',
     written |-> written', open |-> conn'.open]

\* for { decoder.Decode(&rawMessage) ... }: the loop of handleTCPConnection
\* takes the next message from the stream
TCPLoop(wok) ==
    /\ inbox # <<>>
    /\ TCPTurn(Head(inbox), wok)
    /\ inbox' = Tail(inbox)
    /\ served' = Append(served, Served(Head(inbox)))
    /\ UNCHANGED sent
    /\ StreamOnly

\* for { conn.ReadMessage() ... }: the loop of handleWebSocketConnection
\* takes the next message from the connection
WebSocketLoop(wok) ==
    /\ inbox # <<>>
    /\ WebSocketTurn(Head(inbox), wok)
    /\ inbox' = Tail(inbox)
    /\ served' = Append(served, Served(Head(inbox)))
    /\ UNCHANGED sent
    /\ StreamOnly

NextStream ==
    \/ AcceptTCP
    \/ AcceptWebSocket
    \/ \E p \in StreamPayloads : ClientSends(p)
    \/ \E w \in BOOLEAN : TCPLoop(w)
    \/ \E w \in BOOLEAN : WebSocketLoop(w)
    \/ EndOfCall
    \/ ReadFails

SpecStream == Init /\ [][NextStream]_vars

----------------------------------------------------------------------------
(* Dispatcher.GetRegisteredMethods and the callers that keep and change    *)
(* the slices it returned, while handlers are registered and unregistered. *)

\* the methods that are registered and unregistered beside the calls
ListedMethods == {"echo", "nope"}

\* the keys of d.handlers
Registered(hs) == {m \in DOMAIN hs : hs[m] # NoHandler}

\* for method := range d.handlers: a map is ranged over in any order, each
\* key once
Ranges(hs) ==
    {s \in [1 .. Cardinality(Registered(hs)) -> Registered(hs)] :
        \A i, j \in DOMAIN s : s[i] = s[j] => i = j}

\* a GetRegisteredMethods that appends to one slice it keeps between calls
makeReusesArray(ls) == 1

\* make([]string, 0, len(d.handlers)): the address of a new backing array
make(ls) == Len(ls) + 1

\* only the registry and the lists move
ListsOnly ==
    UNCHANGED <<serverVars, registryVars, asyncVars, stopped, loggingVars, chainVars, streamVars, contextVars, connVars, closeVars, processorVars, timeoutVars, mockVars>>

\* Dispatcher.GetRegisteredMethods, under d.mu.RLock(): the loop appends
\* the keys in the order `order` to the slice it made
GetRegisteredMethods(order) ==
    /\ Len(lists) < MaxLists
    /\ order \in Ranges(handlers)
    /\ arrays' = [arrays EXCEPT ![make(lists)] = order]
    /\ lists' = Append(lists, [addr |-> make(lists), at |-> Registered(handlers), touched |-> FALSE])
    /\ ListsOnly

\* the caller of call k stores another string into element i of the slice
\* it got
CallerStores(k, i) ==
    /\ k \in DOMAIN lists
    /\ i \in DOMAIN arrays[lists[k].addr]
    /\ arrays[lists[k].addr][i] # "mine"
    /\ arrays' = [arrays EXCEPT ![lists[k].addr][i] = "mine"]
    /\ lists' = [lists EXCEPT ![k].touched = TRUE]
    /\ ListsOnly

NextLists ==
    \/ \E m \in ListedMethods, h \in RegistryHandlers : RegisterHandler(m, h)
    \/ \E m \in ListedMethods : UnregisterHandler(m)
    \/ \E o \in SeqsUpTo(ListedMethods, Cardinality(ListedMethods)) : GetRegisteredMethods(o)
    \/ \E k \in 1 .. MaxLists, i \in 1 .. Cardinality(ListedMethods) : CallerStores(k, i)

SpecLists == Init /\ [][NextLists]_vars

----------------------------------------------------------------------------
(* The RequestContext of a call: made by the Processor, handed down the    *)
(* chain to the handler, and read by the log task after the call.          *)

\* Config.ServiceName and Config.Version of main
ServiceName == "streaming-server"
ServiceVersion == "1.0.0"

\* the labels the transports put into ProcessingContext.Transport
Transports == {"HTTP", "TCP"}

\* the ProcessingContext a transport supplies
ProcessingContext(transport) ==
    [Transport |-> transport, ServiceName |-> ServiceName, ServiceVersion |-> ServiceVersion]

\* types.NewRequestContext(ctx, transport, remoteAddr), at time now
NewRequestContext(transport, now) ==
    [Transport |-> transport, StartTime |-> now, Data |-> {}, SelectedHandler |-> ""]

\* RequestContext.WithValue: rc.Data[key] = value
WithValue(rc, key, value) ==
    [rc EXCEPT !.Data = {p \in @ : p[1] # key} \cup {<<key, value>>}]

\* JSONRPCProcessor.createRequestContext
createRequestContext(method, ctx, now) ==
    WithValue(
        WithValue(
            WithValue(NewRequestContext(ctx.ServiceName, now), "transport", ctx.Transport),
            "service_version", ctx.ServiceVersion),
        "method", method)

\* Logger.createLogEntry(req, ctx, response, err) at time now, for a call
\* that succeeded: the fields taken from the context
createLogEntry(rc, now) ==
    [Transport |-> rc.Transport, StartTime |-> rc.StartTime,
     Duration |-> now - rc.StartTime, Handler |-> rc.SelectedHandler,
     RequestData |-> rc.Data, Success |-> TRUE]

\* the middlewares of the repository, and the middleware of
\* TestDispatcher_Dispatch_WithMiddleware that writes into the bag
ContextMiddlewares == {"logging", "selection", "metrics", "tracing", "writer"}

\* the chains built from them, no middleware twice
ContextChains ==
    {c \in SeqsUpTo(ContextMiddlewares, MaxChain) : \A i, j \in DOMAIN c : c[i] = c[j] => i = j}

\* what the middleware of this kind does to the context it got before it
\* calls next; TracingMiddleware does not touch it
BeforeNext(kind, rc) ==
    CASE kind = "writer"    -> WithValue(rc, "middleware_processed", "true")
      [] kind = "selection" -> [rc EXCEPT !.SelectedHandler = "unknown"]
      [] OTHER              -> rc

\* only the call and its contexts move
ContextOnly ==
    UNCHANGED <<serverVars, registryVars, asyncVars, stopped, loggingVars, chainVars,
                streamVars, listVars, connVars, closeVars, processorVars, timeoutVars, mockVars>>

\* processRegularRequest: requestCtx := p.createRequestContext(req, ctx),
\* and Dispatch hands it to the chain
ProcessorCreates(transport, chain) ==
    /\ call.pc = "idle"
    /\ contexts' = <<createRequestContext("echo", ProcessingContext(transport), clock)>>
    /\ call' = [NoContextCall EXCEPT !.pc = "down", !.transport = transport,
                                     !.chain = chain, !.index = 1, !.ctx = 1]
    /\ UNCHANGED <<clock, entry>>
    /\ ContextOnly

\* the middleware at call.index runs up to its call of next: it gets the
\* context of the level above; TracingMiddleware calls next with a context
\* of its own, newCtx := types.NewRequestContext(spanCtx, ctx.Transport,
\* ctx.RemoteAddr)
MiddlewareCallsNext ==
    /\ call.pc = "down"
    /\ call.index <= Len(call.chain)
    /\ \E kind \in {call.chain[call.index]} :
          /\ contexts' =
                IF kind = "tracing"
                THEN Append(contexts, NewRequestContext(contexts[call.ctx].Transport, clock))
                ELSE [contexts EXCEPT ![call.ctx] = BeforeNext(kind, @)]
          /\ call' = [call EXCEPT
                !.seen = Append(@, contexts[call.ctx].Data),
                !.index = @ + 1,
                !.ctx = IF kind = "tracing" THEN Len(contexts) + 1 ELSE @,
                !.logCtx = IF kind = "logging" THEN call.ctx ELSE @]
    /\ UNCHANGED <<clock, entry>>
    /\ ContextOnly

\* the handler runs with the context the last middleware handed to it
HandlerRuns ==
    /\ call.pc = "down"
    /\ call.index = Len(call.chain) + 1
    /\ call' = [call EXCEPT !.seen = Append(@, contexts[call.ctx].Data),
                            !.pc = "up", !.index = Len(call.chain)]
    /\ UNCHANGED <<clock, contexts, entry>>
    /\ ContextOnly

\* next returns to the middleware at call.index, which returns in its turn;
\* LoggingMiddleware hands its closure, with ctx in it, to the pipeline
MiddlewareReturns ==
    /\ call.pc = "up"
    /\ call.index >= 1
    /\ call' = [call EXCEPT
            !.index = @ - 1,
            !.pc = IF call.index = 1 THEN "done" ELSE "up",
            !.atReturn = IF call.chain[call.index] = "logging"
                         THEN createLogEntry(contexts[call.logCtx], clock)
                         ELSE @]
    /\ UNCHANGED <<clock, contexts, entry>>
    /\ ContextOnly

\* a chain without middlewares: Execute has returned what the handler returned
ExecuteReturns ==
    /\ call.pc = "up"
    /\ call.index = 0
    /\ call' = [call EXCEPT !.pc = "done"]
    /\ UNCHANGED <<clock, contexts, entry>>
    /\ ContextOnly

\* time passes
Tick ==
    /\ clock < MaxClock
    /\ clock' = clock + 1
    /\ UNCHANGED <<contexts, call, entry>>
    /\ ContextOnly

\* the closure of LoggingMiddleware runs in the goroutine of the pipeline:
\* entry := logger.createLogEntry(req, ctx, response, err)
LogTaskRuns ==
    /\ call.atReturn # <<>>
    /\ entry = NoEntry
    /\ entry' = createLogEntry(contexts[call.logCtx], clock)
    /\ UNCHANGED <<clock, contexts, call>>
    /\ ContextOnly

\* the call and its log task are over
CallEnds ==
    /\ call.pc = "done"
    /\ call.atReturn # <<>> => entry # NoEntry
    /\ call' = NoContextCall
    /\ contexts' = <<>>
    /\ entry' = NoEntry
    /\ UNCHANGED clock
    /\ ContextOnly

NextContext ==
    \/ \E t \in Transports, c \in ContextChains : ProcessorCreates(t, c)
    \/ MiddlewareCallsNext
    \/ HandlerRuns
    \/ MiddlewareReturns
    \/ ExecuteReturns
    \/ Tick
    \/ LogTaskRuns
    \/ CallEnds

SpecContext == Init /\ [][NextContext]_vars

----------------------------------------------------------------------------
(* Connections and panics: a handler or middleware that panics in a        *)
(* synchronous call unwinds the goroutine that serves the connection.      *)

\* the transports that serve a connection in a loop
ConnectionTransports == {"TCP", "WebSocket"}

\* whether a deferred recover() is on the stack of the goroutine that serves
\* a connection of this transport: handleWebSocket runs as the handler of
\* net/http, whose server recovers the panics of handlers; startTCP does
\* go s.handleTCPConnection(conn, "TCP"), and nothing in it recovers
Recovers(transport) == transport = "WebSocket"

\* only the connections and the process move
ConnectionsOnly ==
    UNCHANGED <<serverVars, registryVars, asyncProcessor, tasks, shutdown, stopped, loggingVars,
                chainVars, streamVars, listVars, contextVars, closeVars, processorVars, timeoutVars, mockVars>>

\* listener.Accept, or the upgrade of a WebSocket request
AcceptConnection(c, transport) ==
    /\ process = "running"
    /\ connections[c].state = "none"
    /\ connections' = [connections EXCEPT ![c] = [state |-> "open", transport |-> transport, calls |-> 0]]
    /\ UNCHANGED process
    /\ ConnectionsOnly

\* one call on connection c: when the handler panics, the deferred
\* conn.Close() runs and the panic goes on up the goroutine; unrecovered, it
\* ends the process and with it every connection
ConnectionCall(c, panics) ==
    /\ process = "running"
    /\ connections[c].state = "open"
    /\ connections[c].calls < MaxCalls
    /\ IF ~panics
       THEN /\ connections' = [connections EXCEPT ![c].calls = @ + 1]
            /\ UNCHANGED process
       ELSE IF Recovers(connections[c].transport)
       THEN /\ connections' = [connections EXCEPT ![c].state = "panicked"]
            /\ UNCHANGED process
       ELSE /\ connections' =
                [d \in DOMAIN connections |->
                    IF d = c THEN [connections[d] EXCEPT !.state = "panicked"]
                    ELSE IF connections[d].state = "open"
                    THEN [connections[d] EXCEPT !.state = "killed"]
                    ELSE connections[d]]
            /\ process' = "crashed"
    /\ ConnectionsOnly

\* the client ends the connection: the read fails and the loop is left
ClientCloses(c) ==
    /\ process = "running"
    /\ connections[c].state = "open"
    /\ connections' = [connections EXCEPT ![c].state = "closed"]
    /\ UNCHANGED process
    /\ ConnectionsOnly

NextConnections ==
    \/ \E c \in DOMAIN connections, t \in ConnectionTransports : AcceptConnection(c, t)
    \/ \E c \in DOMAIN connections, panics \in BOOLEAN : ConnectionCall(c, panics)
    \/ \E c \in DOMAIN connections : ClientCloses(c)

SpecConnections == Init /\ [][NextConnections]_vars

----------------------------------------------------------------------------
(* The Processor called by several goroutines at once, one per connection  *)
(* or request, while handlers are registered.  Its only fields are the     *)
(* Dispatcher and the Logger; request, requestCtx and response are locals  *)
(* of each call.                                                           *)

\* the ids of the calls, by goroutine
CallIds == <<"a", "b", "c", "d">>

\* &RequestContext{...} in NewRequestContextWithClock that hands out the
\* object of the first call again
AllocateShared(heap) == 1

\* &RequestContext{...} in NewRequestContextWithClock: an object of its own
Allocate(heap) == Len(heap) + 1

\* the heap with obj stored at addr
Stored(heap, addr, obj) ==
    IF addr \in DOMAIN heap THEN [heap EXCEPT ![addr] = obj] ELSE Append(heap, obj)

\* only the callers, their contexts and the handlers move
CallersOnly ==
    /\ UNCHANGED <<middlewareChain, conn, msg, result, written, status, dispatchLog>>
    /\ UNCHANGED <<registryVars, asyncVars, stopped, loggingVars, chainVars, streamVars, listVars,
                   clock, call, entry, connVars, closeVars, timeoutVars, mockVars>>

\* ProcessSingleRequest: data is parsed into the local request, which is
\* valid and has an id
CallerParses(g, method, transport) ==
    /\ callers[g].pc = "idle"
    /\ callers' = [callers EXCEPT ![g] =
            [NoCaller EXCEPT !.pc = "context", !.transport = transport,
                             !.request = [JSONRPC |-> "2.0", Method |-> method, ID |-> StrId(CallIds[g])]]]
    /\ UNCHANGED <<handlers, contexts>>
    /\ CallersOnly

\* processRegularRequest: requestCtx := p.createRequestContext(req, ctx)
CallerCreatesContext(g) ==
    /\ callers[g].pc = "context"
    /\ \E addr \in {Allocate(contexts)} :
          /\ contexts' = Stored(contexts, addr,
                createRequestContext(callers[g].request.Method, ProcessingContext(callers[g].transport), clock))
          /\ callers' = [callers EXCEPT ![g].pc = "lookup", ![g].ctx = addr]
    /\ UNCHANGED handlers
    /\ CallersOnly

\* Dispatch: handler, exists := d.handlers[request.Method], under d.mu.RLock()
CallerLooksUp(g) ==
    /\ callers[g].pc = "lookup"
    /\ callers' = [callers EXCEPT ![g].pc = "execute",
                                  ![g].handler = handlers[callers[g].request.Method]]
    /\ UNCHANGED <<handlers, contexts>>
    /\ CallersOnly

\* the rest of Dispatch with the handler it found, the handler reading the
\* context it was given, and the rest of processRegularRequest
CallerExecutes(g) ==
    /\ callers[g].pc = "execute"
    /\ \E req \in {callers[g].request} :
       \E d \in {Dispatch([handlers EXCEPT ![req.Method] = callers[g].handler], middlewareChain, req)} :
          callers' = [callers EXCEPT
                ![g].pc = "done",
                ![g].saw = IF d.found THEN contexts[callers[g].ctx].Data ELSE {},
                ![g].resp = processRegularRequest(req, d).resp]
    /\ UNCHANGED <<handlers, contexts>>
    /\ CallersOnly

\* another goroutine registers or unregisters the handler of "nope"
CallerRegisters(handler) ==
    /\ handlers["nope"] # handler
    /\ handlers' = [handlers EXCEPT !["nope"] = handler]
    /\ UNCHANGED <<callers, contexts>>
    /\ CallersOnly

NextCallers ==
    \/ \E g \in DOMAIN callers, m \in {"echo", "nope"}, t \in Transports : CallerParses(g, m, t)
    \/ \E g \in DOMAIN callers : CallerCreatesContext(g)
    \/ \E g \in DOMAIN callers : CallerLooksUp(g)
    \/ \E g \in DOMAIN callers : CallerExecutes(g)
    \/ \E h \in {NoHandler, "rpcerr"} : CallerRegisters(h)

SpecCallers == Init /\ [][NextCallers]_vars

----------------------------------------------------------------------------
(* DefaultAsyncProcessor.ProcessWithTimeout: Process with a context that   *)
(* has the timeout as its deadline, then a select on the channel the fn    *)
(* closes when it ends and on that context.                                *)

\* a select that takes the done case whatever is ready
TimeoutSelectOk(done, expired) ==
    {r \in {NoErr} : done \/ expired}

\* the select of ProcessWithTimeout: the results of the cases that are ready
TimeoutSelect(done, expired) ==
    {r \in {NoErr, DeadlineExceeded} :
        (r = NoErr /\ done) \/ (r = DeadlineExceeded /\ expired)}

\* ProcessWithTimeout returns res to its caller
TimedReturn(t, res) ==
    [t EXCEPT !.pc = "returned", !.res = res, !.sawDone = t.done,
              !.sawExpired = t.timeout = "expired"]

\* the rest of the server does not move
TimedOnly ==
    UNCHANGED <<serverVars, registryVars, stopped, loggingVars, chainVars, streamVars, listVars,
                contextVars, connVars, closeVars, processorVars, mockVars>>

\* ProcessWithTimeout(ctx, fn, timeout) is called: the context with the
\* deadline is made and the select of Process is evaluated
ProcessWithTimeout(i, ctxErr) ==
    /\ timed[i].pc = "none"
    /\ \A j \in 1 .. (i - 1) : tasks[j].sub # "none"
    /\ ProcessCall(i, ctxErr)
    /\ timed' = [timed EXCEPT ![i].pc = "process"]
    /\ TimedOnly

\* Process has returned: if err != nil { return err }, else on to the select
TimedProcessReturned(i) ==
    /\ process = "running"
    /\ timed[i].pc = "process"
    /\ tasks[i].sub = "returned"
    /\ timed' = [timed EXCEPT ![i] =
            IF tasks[i].res # NoErr THEN TimedReturn(@, tasks[i].res) ELSE [@ EXCEPT !.pc = "select"]]
    /\ UNCHANGED asyncVars
    /\ TimedOnly

\* the select of ProcessWithTimeout: it returns by a case that is ready, or
\* blocks
TimedSelect(i) ==
    /\ process = "running"
    /\ timed[i].pc = "select"
    /\ \E ready \in {TimeoutSelect(timed[i].done, timed[i].timeout = "expired")} :
          IF ready = {}
          THEN timed' = [timed EXCEPT ![i].pc = "blocked"]
          ELSE \E r \in ready : timed' = [timed EXCEPT ![i] = TimedReturn(@, r)]
    /\ UNCHANGED asyncVars
    /\ TimedOnly

\* the timeout passes while ProcessWithTimeout has not returned (its
\* deferred cancel() stops the timer); a call blocked in its select returns
\* timeoutCtx.Err()
TimeoutExpires(i) ==
    /\ process = "running"
    /\ timed[i].pc \in {"process", "select", "blocked"}
    /\ timed[i].timeout = "pending"
    /\ \E t \in {[timed[i] EXCEPT !.timeout = "expired"]} :
          timed' = [timed EXCEPT ![i] =
                        IF t.pc = "blocked" THEN TimedReturn(t, DeadlineExceeded) ELSE t]
    /\ UNCHANGED asyncVars
    /\ TimedOnly

\* the fn of call i returns or panics: the deferred close(done) of the
\* closure runs, and the goroutine ends as that of every Process; a call
\* blocked in its select returns fnErr, which is nil
TimedFinish(i, panics) ==
    /\ FinishTask(i, panics)
    /\ \E t \in {[timed[i] EXCEPT !.done = TRUE, !.inTime = timed[i].timeout = "pending"]} :
          timed' = [timed EXCEPT ![i] =
                        IF t.pc = "blocked" THEN TimedReturn(t, NoErr) ELSE t]
    /\ TimedOnly

NextTimeout ==
    \/ \E i \in Tasks, e \in CtxErrs : ProcessWithTimeout(i, e)
    \/ \E i \in Tasks : ProcessAdd(i)
    \/ \E i \in Tasks : ProcessGo(i)
    \/ \E i \in Tasks : ProcessReturn(i)
    \/ \E i \in Tasks : TimedProcessReturned(i)
    \/ \E i \in Tasks : TimedSelect(i)
    \/ \E i \in Tasks : TimeoutExpires(i)
    \/ \E i \in Tasks : Start(i)
    \/ \E i \in Tasks, panics \in BOOLEAN : TimedFinish(i, panics)
    \/ Shutdown("none")
    \/ Wait
    \/ Select

SpecTimeout == Init /\ [][NextTimeout]_vars

----------------------------------------------------------------------------
(* MockAsyncProcessor, the AsyncProcessor of the tests: Process records    *)
(* the fn, ExecuteProcessedFunctions runs what was recorded.               *)

\* the fns handed to Process; a nil func among them
MockFns == {"f", "g", "nil"}

\* the errors handed to SetProcessErrors; a nil error among them
MockErrors == {"test error", NoErr}

\* a Process that runs the fn when it returns nil
MockProcessRunsFn(m, fn) ==
    [mock |-> [processedFunctions |-> Append(m.processedFunctions, fn),
               processErrors |-> IF Len(m.processErrors) > 0 THEN Tail(m.processErrors) ELSE <<>>],
     err |-> IF Len(m.processErrors) > 0 THEN m.processErrors[1] ELSE NoErr,
     ran |-> IF Len(m.processErrors) = 0 /\ fn # "nil" THEN <<fn>> ELSE <<>>]

\* MockAsyncProcessor.Process(ctx, fn): the processor after the call, the
\* error returned, and the fns that ran during the call
MockProcess(m, fn) ==
    [mock |-> [processedFunctions |-> Append(m.processedFunctions, fn),
               processErrors |-> IF Len(m.processErrors) > 0 THEN Tail(m.processErrors) ELSE <<>>],
     err |-> IF Len(m.processErrors) > 0 THEN m.processErrors[1] ELSE NoErr,
     ran |-> <<>>]

RECURSIVE ExecuteFrom(_, _)
\* an ExecuteProcessedFunctions that stops at the first nil func
ExecuteFromStopsAtNil(functions, i) ==
    IF i > Len(functions) \/ functions[i] = "nil"
    THEN <<>>
    ELSE <<functions[i]>> \o ExecuteFrom(functions, i + 1)

\* for _, fn := range functions { if fn != nil { fn() } }, from position i
\* on: the fns that run, in order
ExecuteFrom(functions, i) ==
    IF i > Len(functions)
    THEN <<>>
    ELSE IF functions[i] # "nil"
    THEN <<functions[i]>> \o ExecuteFrom(functions, i + 1)
    ELSE ExecuteFrom(functions, i + 1)

\* the rest of the server does not move
MockOnly ==
    UNCHANGED <<serverVars, registryVars, asyncVars, stopped, loggingVars, chainVars, streamVars,
                listVars, contextVars, connVars, closeVars, processorVars, timeoutVars>>

\* SetProcessErrors(errors...)
SetProcessErrors(errors) ==
    /\ mock' = [mock EXCEPT !.processErrors = errors]
    /\ given' = [errs |-> errors, at |-> Len(submitted)]
    /\ UNCHANGED <<submitted, ran, expected>>
    /\ MockOnly

\* a test calls Process(ctx, fn)
Submit(fn) ==
    /\ Len(submitted) < MaxSubmits
    /\ \E p \in {MockProcess(mock, fn)} :
          /\ mock' = p.mock
          /\ submitted' = Append(submitted, [fn |-> fn, err |-> p.err])
          /\ ran' = ran \o p.ran
    /\ UNCHANGED <<given, expected>>
    /\ MockOnly

\* ExecuteProcessedFunctions(): the list is copied under the mutex and the
\* fns of the copy are called one after the other by the caller
ExecuteProcessedFunctions ==
    /\ Len(expected) + Len(submitted) <= MaxRan
    /\ ran' = ran \o ExecuteFrom(mock.processedFunctions, 1)
    /\ expected' = expected \o SelectSeq(submitted, LAMBDA s : s.fn # "nil")
    /\ UNCHANGED <<mock, submitted, given>>
    /\ MockOnly

\* Reset(); the test starts to observe anew
Reset ==
    /\ mock' = NewMockAsyncProcessor
    /\ submitted' = <<>>
    /\ given' = [errs |-> <<>>, at |-> 0]
    /\ ran' = <<>>
    /\ expected' = <<>>
    /\ MockOnly

NextMock ==
    \/ \E errors \in SeqsUpTo(MockErrors, MaxErrors) : SetProcessErrors(errors)
    \/ \E fn \in MockFns : Submit(fn)
    \/ ExecuteProcessedFunctions
    \/ Reset

SpecMock == Init /\ [][NextMock]_vars

----------------------------------------------------------------------------
(* Properties *)

\* the message was handed to ProcessSingleRequest and is a JSON object
IsEnvelope == msg.route = "single" /\ msg.payload.json.k = "object"

Envelope == msg.payload.json

\* the *JSONRPCResponse that ProcessSingleRequest returned
Returned == result.ptr

\* the response envelopes among the frames written for the message
WrittenResponses ==
    {written[i].body : i \in {j \in DOMAIN written : written[j].k = "object"}}
    \cup UNION {{written[i].elems[n] : n \in DOMAIN written[i].elems} :
                    i \in {j \in DOMAIN written : written[j].k = "array"}}

\* C1: for every request whose envelope omits the id key, whatever its
\* protocol version, method or handler, ProcessSingleRequest returns nil
\* and the transport writes nothing for it.
C1_NotificationSilence ==
    (IsEnvelope /\ Envelope.id = AbsentId)
        => (result = PtrIface(NilResponse) /\ written = <<>>)

\* C2: for every single request that is not a notification (its id key is
\* present), ProcessSingleRequest returns a non-nil response, whatever the
\* handler and the middlewares did.
C2_ExactlyOneResponse ==
    (IsEnvelope /\ Envelope.id # AbsentId) => Returned # NilResponse

\* C3: for every request with a parseable envelope and an id key, the id of
\* the response that is emitted is the id of the request, of the same JSON
\* type and value.
C3_IdEcho ==
    (IsEnvelope /\ Envelope.id # AbsentId /\ Returned # NilResponse)
        => EncodeResponse(Returned).id = Envelope.id

\* C4: a valid request whose id key is present with the value null is a
\* regular call: it is dispatched once and yields one response, with id null.
C4_NullIdIsCall ==
    (/\ IsEnvelope
     /\ Envelope.id = NullId
     /\ Envelope.jsonrpc = "2.0"
     /\ Envelope.method \in {"echo", "nope"})
        => (/\ Len(dispatchLog) = 1
            /\ Returned # NilResponse
            /\ EncodeResponse(Returned).id = NullId)

\* C5: every response envelope that is emitted has exactly one of result
\* and error.
C5_ExclusiveOutcome ==
    \A r \in WrittenResponses : r.hasResult # r.hasError

\* C6: every response envelope the Processor returns and every one a
\* transport writes has protocol version "2.0", also when the handler or a
\* middleware put another version into its response.
C6_VersionEcho ==
    /\ \A r \in WrittenResponses : r.jsonrpc = "2.0"
    /\ (result.type = "*JSONRPCResponse" /\ result.ptr # NilResponse)
            => result.ptr.JSONRPC = "2.0"
    /\ result.type = "[]*JSONRPCResponse"
            => \A i \in DOMAIN result.elems : result.elems[i].JSONRPC = "2.0"

\* a call with an id key whose chain handed back a response of version
\* "1.0", answered with one response envelope
C6_Witness ==
    /\ IsEnvelope
    /\ Envelope.id # AbsentId
    /\ Len(dispatchLog) = 1
    /\ dispatchLog[1].resp # NilResponse
    /\ dispatchLog[1].resp.JSONRPC = "1.0"
    /\ Len(written) = 1
    /\ written[1].k = "object"

IsCallElem(e) == e.id # AbsentId

\* C7: for a non-empty batch ProcessBatchRequest returns nil when every
\* element is a notification, and otherwise an array with exactly one
\* response per element that has an id key, in the order of the input.
C7_BatchSuppression ==
    (msg.route = "batch" /\ msg.payload.json.k = "array" /\ Len(msg.payload.json.elems) > 0)
        => LET calls == SelectSeq(msg.payload.json.elems, IsCallElem)
           IN  IF Len(calls) = 0
               THEN result = NilIface
               ELSE /\ result.type = "[]*JSONRPCResponse"
                    /\ Len(result.elems) = Len(calls)
                    /\ \A i \in DOMAIN calls :
                           EncodeResponse(result.elems[i]).id = calls[i].id

\* the Processor's result is nil: no response pointer, no response array
ResultIsNil ==
    \/ result = NilIface
    \/ result.type = "*JSONRPCResponse" /\ result.ptr = NilResponse

\* C8: on every transport nothing is written for a message whose result is
\* nil, and exactly one message is written when it is not nil (unless the
\* write failed and closed the connection).
C8_TransportSilence ==
    msg.route # "none"
        => IF ResultIsNil
           THEN written = <<>>
           ELSE conn.open => Len(written) = 1

NoSkip(c) == \A k \in DOMAIN c : c[k] # "skip"

\* pre-work of M1..Mn, the handler, post-work of Mn..M1
OnionTrace(n) ==
    [i \in 1..(2 * n + 1) |->
        IF i <= n THEN Pre(i) ELSE IF i = n + 1 THEN HandlerEvent ELSE Post(2 * n + 2 - i)]

\* C9: when every middleware of the chain calls next once, a dispatched call
\* runs the pre-work of M1..Mn in this order, then the handler exactly once,
\* then the post-work of Mn..M1.
C9_MiddlewareOrder ==
    \A i \in DOMAIN dispatchLog :
        (dispatchLog[i].found /\ NoSkip(middlewareChain))
            => dispatchLog[i].trace = OnionTrace(Len(middlewareChain))

\* a dispatched call under a chain of two or more middlewares that all call next
C9_Witness ==
    /\ Len(dispatchLog) = 1
    /\ dispatchLog[1].found
    /\ Len(middlewareChain) >= 2
    /\ NoSkip(middlewareChain)

\* the position of the first middleware that does not call next
FirstSkip(c) == CHOOSE i \in DOMAIN c : c[i] = "skip" /\ \A j \in 1..(i - 1) : c[j] # "skip"

RECURSIVE Unwind(_, _, _, _)
\* what M1..Mk make of the outcome `out` handed back to Mk
Unwind(c, k, req, out) ==
    IF k = 0 THEN out ELSE Unwind(c, k - 1, req, RunMiddleware(c[k], k, req, out))

\* C10: when Mi returns without calling next, neither a later middleware nor
\* the handler runs, the post-work of Mi-1..M1 runs in this order, and what
\* Mi returned, as transformed by Mi-1..M1, is the result of the chain.
C10_ShortCircuit ==
    \A i \in DOMAIN dispatchLog :
        (dispatchLog[i].found /\ ~NoSkip(middlewareChain))
            => LET d == dispatchLog[i]
                   s == FirstSkip(middlewareChain)
                   own == RunMiddleware("skip", s, d.request, Outcome(NilResponse, NoErr, <<>>))
                   exp == Unwind(middlewareChain, s - 1, d.request, own)
               IN  /\ \A j \in DOMAIN d.trace : d.trace[j] # HandlerEvent /\ d.trace[j].who <= s
                   /\ d.trace = [j \in 1..(2 * s) |-> IF j <= s THEN Pre(j) ELSE Post(2 * s + 1 - j)]
                   /\ d.resp = exp.resp
                   /\ d.err = exp.err

\* a dispatched call whose chain has a middleware before and a middleware
\* after the one that does not call next, or the latter in second place
C10_Witness ==
    /\ Len(dispatchLog) = 1
    /\ dispatchLog[1].found
    /\ Len(middlewareChain) >= 2
    /\ middlewareChain[1] = "rewrite"
    /\ middlewareChain[2] = "skip"

\* C11: under any interleaving of RegisterHandler, UnregisterHandler and
\* Dispatch lookups, a lookup of a name sees what the most recent completed
\* registration or unregistration of that name left (not found after an
\* unregistration or when the name was never registered), and no lookup
\* runs while a writer is inside the registry
C11_RegistryLinearizable ==
    /\ \A g \in Goroutines :
          goroutines[g].pc = "looked" => goroutines[g].seen = completed[goroutines[g].method]
    /\ mu.writer # 0 => mu.readers = {}

\* C11: a lookup has seen the handler a concurrent goroutine registered,
\* while the lookup of a second goroutine holds the read lock too
C11_Witness ==
    \E g, r \in Goroutines :
        /\ g # r
        /\ goroutines[g].pc = "looked"
        /\ goroutines[g].seen = "fail"
        /\ goroutines[r].pc = "rlocked"

\* every fn accepted before the call of Shutdown has finished
AllBeforeDone == Pending(shutdown.before) = {}

\* C12 as stated: Shutdown returns ok only after every fn submitted before
\* the Shutdown call has finished, and when the caller's deadline expires
\* first (while such a fn is unfinished) Shutdown returns the deadline error
C12_ShutdownWaitsOrDeadline ==
    /\ shutdown.result = NoErr => AllBeforeDone
    /\ (shutdown.pc = "returned" /\ shutdown.expiredFirst) => shutdown.result = DeadlineExceeded

\* C12 amended: Shutdown returns ok only after every fn submitted before
\* the Shutdown call has finished; it returns the deadline error only after
\* the deadline has expired; when the deadline expired first, it returns
\* the deadline error unless every such fn has finished as well by the time
\* Shutdown reaches its select, in which case either result may come back
C12_ShutdownWaits ==
    /\ shutdown.result = NoErr => AllBeforeDone
    /\ shutdown.result = DeadlineExceeded => shutdown.ctx = "expired"
    /\ (shutdown.pc = "returned" /\ shutdown.expiredFirst) =>
            (shutdown.result = DeadlineExceeded \/ AllBeforeDone)

\* C12: Shutdown has returned ok for fns submitted before it, although the
\* deadline expired while one of them was still unfinished
C12_Witness ==
    /\ shutdown.pc = "returned"
    /\ shutdown.result = NoErr
    /\ shutdown.before # {}
    /\ shutdown.expiredFirst

\* fn of call i never ran and never will
NeverRun(i) == tasks[i].run = "none" /\ tasks[i].sub = "returned"

\* C13 as stated: a Submit made after Shutdown was called returns a
\* cancellation error, a Submit whose per-call ctx is done returns that
\* ctx's error, in both cases fn is never run, and fn runs only for a
\* Submit that returned ok
C13_SubmitChecksContexts ==
    \A i \in Tasks :
        /\ (tasks[i].sub = "returned" /\ tasks[i].late) =>
                (tasks[i].res \in {Canceled, DeadlineExceeded} /\ NeverRun(i))
        /\ (tasks[i].sub = "returned" /\ tasks[i].ctxErr # NoErr) =>
                (tasks[i].res = tasks[i].ctxErr /\ NeverRun(i))
        /\ (tasks[i].sub = "returned" /\ tasks[i].run # "none") => tasks[i].res = NoErr

\* C13 amended: a Submit made after Shutdown was called returns an error; a
\* Submit whose per-call ctx is done returns that ctx's error, or, when
\* Shutdown has been called as well, either that error or the pipeline's
\* cancellation error; in both cases fn is never run; fn runs only for a
\* Submit that returned ok, and once Submit has returned ok fn does run
C13_SubmitRejectsWhenDone ==
    /\ [](\A i \in Tasks :
            /\ (tasks[i].sub = "returned" /\ tasks[i].late) =>
                    (tasks[i].res \in {Canceled, tasks[i].ctxErr} \ {NoErr} /\ NeverRun(i))
            /\ (tasks[i].sub = "returned" /\ tasks[i].late /\ tasks[i].ctxErr = NoErr) =>
                    tasks[i].res = Canceled
            /\ (tasks[i].sub = "returned" /\ tasks[i].ctxErr # NoErr) =>
                    (tasks[i].res \in {tasks[i].ctxErr} \cup
                                      (IF tasks[i].late THEN {Canceled} ELSE {})
                     /\ NeverRun(i))
            /\ (tasks[i].sub = "returned" /\ tasks[i].run # "none") => tasks[i].res = NoErr
            /\ tasks[i].run # "none" => tasks[i].sub \in {"return", "returned"})
    /\ \A i \in Tasks :
            (tasks[i].sub = "returned" /\ tasks[i].res = NoErr) ~> (tasks[i].run = "done")

\* C13: a Submit made after Shutdown, with its own ctx done too, came back
\* with the pipeline's cancellation error, and an earlier Submit was
\* accepted and its fn has run
C13_Witness ==
    \E i, j \in Tasks :
        /\ tasks[i].sub = "returned" /\ tasks[i].late
        /\ tasks[i].ctxErr = DeadlineExceeded /\ tasks[i].res = Canceled
        /\ tasks[j].sub = "returned" /\ tasks[j].res = NoErr /\ tasks[j].run = "done"

\* C15: Submit returns to its caller before fn begins executing, and fn
\* runs only in the goroutine that the go statement of Process created
C15_SubmitReturnsFirst ==
    \A i \in Tasks :
        /\ tasks[i].run \in {"running", "done"} => tasks[i].sub = "returned"
        /\ tasks[i].run # "none" => tasks[i].sub \in {"return", "returned"}

\* the calls of Process whose p.wg.Add(1) has run
Added == {i \in Tasks : tasks[i].sub \in {"go", "return"}} \cup Accepted

\* C16: a panic inside a submitted fn does not end the process or the
\* pipeline: the panicking task is counted as finished, a later Submit with
\* no context done is accepted, every accepted fn still runs to completion,
\* and a Shutdown without a deadline returns ok
C16_PanicContained ==
    /\ [](process = "running")
    /\ [](asyncProcessor.wg = Cardinality(Pending(Added)))
    /\ [](\A i \in Tasks :
            (tasks[i].sub = "returned" /\ ~tasks[i].late /\ tasks[i].ctxErr = NoErr) =>
                tasks[i].res = NoErr)
    /\ \A i \in Tasks : (tasks[i].run = "ready") ~> (tasks[i].run = "done")
    /\ (shutdown.pc # "idle" /\ shutdown.ctx = "none") ~> (shutdown.result = NoErr)

\* C16: the first fn panicked, the second one was accepted and ran to its
\* end, and a Shutdown without a deadline returned ok
C16_Witness ==
    /\ tasks[1].run = "done" /\ tasks[1].panicked
    /\ tasks[2].sub = "returned" /\ tasks[2].res = NoErr
    /\ tasks[2].run = "done" /\ ~tasks[2].panicked
    /\ shutdown.pc = "returned" /\ shutdown.ctx = "none" /\ shutdown.result = NoErr

\* C17: once Shutdown has returned, with ok or with the deadline error, no
\* submitted fn is still running and none starts later
C17_ShutdownCancelsWork ==
    shutdown.pc = "returned" =>
        \A i \in Tasks : tasks[i].run \in {"none", "done"} /\ tasks[i].sub \notin {"add", "go"}

\* C14: after Server.Stop has returned ok, every task submitted to the
\* async pipeline before it has run to completion or been cancelled, none
\* of them is still runnable, and no new connection is accepted
C14_StopDrains ==
    stopped.returned =>
        /\ \A i \in stopped.before :
              tasks[i].run \in {"none", "done"} /\ tasks[i].sub \notin {"add", "go"}
        /\ conn.open => stopped.connOpen

\* C18: the log task of a call is submitted to the async pipeline only
\* after the rest of the chain, handler included, has returned the call's
\* response, and no log entry is built or written for a call whose handler
\* is still running
C18_LogAfterResponse ==
    \A i \in Tasks :
        (tasks[i].sub # "none" \/ tasks[i].run # "none" \/ sink[i] # <<>>) =>
            /\ loggedCalls[i].pc \notin {"none", "next"}
            /\ loggedCalls[i].down # <<>>
            /\ loggedCalls[i].down =
                  [resp |-> CallHandler(loggedCalls[i].handler, LoggedRequest(i)).resp,
                   err |-> CallHandler(loggedCalls[i].handler, LoggedRequest(i)).err]

\* C18: the log task of a call whose handler returned an error response is
\* running in the pipeline while the middleware has not returned yet
C18_Witness ==
    \E i \in Tasks :
        /\ tasks[i].run = "running"
        /\ loggedCalls[i].pc = "submit"
        /\ loggedCalls[i].handler = "rpcerr"

\* C19: LoggingMiddleware returns exactly the (response, failure) pair that
\* next returned, whether the call is logged or filtered out, whether
\* Process accepts or rejects the task, whether the sink write succeeds
C19_ReturnsUnchanged ==
    \A i \in Tasks :
        loggedCalls[i].pc = "done" =>
            /\ loggedCalls[i].ret.resp = CallHandler(loggedCalls[i].handler, LoggedRequest(i)).resp
            /\ loggedCalls[i].ret.err = CallHandler(loggedCalls[i].handler, LoggedRequest(i)).err

\* C19: one call was filtered out after its handler failed, another was
\* eligible but its task was rejected by a pipeline that was shut down, and
\* both have returned
C19_Witness ==
    \E i, j \in Tasks :
        /\ loggedCalls[i].pc = "done" /\ ~loggedCalls[i].log
        /\ loggedCalls[i].handler = "fail"
        /\ loggedCalls[j].pc = "done" /\ loggedCalls[j].log
        /\ tasks[j].sub = "returned" /\ tasks[j].res = Canceled

\* the methods a filter list names
Listed(list) == {list[n] : n \in DOMAIN list}

\* C20: shouldLog returns true if and only if logging is enabled, and not
\* (log-only-success and (not success or hasError)), and include-methods is
\* empty or contains the method, and exclude-methods does not contain it
C20_ShouldLogRules ==
    probe # NoProbe =>
        (probe.result <=>
            /\ logger.config.Enabled
            /\ ~(logger.config.LogSuccessOnly /\ (~probe.success \/ probe.hasError))
            /\ (logger.config.IncludeMethods = <<>>
                    \/ probe.method \in Listed(logger.config.IncludeMethods))
            /\ probe.method \notin Listed(logger.config.ExcludeMethods))

\* C20: shouldLog refused a successful call of a method that is in the
\* include list and in the exclude list
C20_Witness ==
    /\ probe # NoProbe
    /\ ~probe.result
    /\ probe.success /\ ~probe.hasError
    /\ logger.config.Enabled
    /\ probe.method \in Listed(logger.config.IncludeMethods)
    /\ probe.method \in Listed(logger.config.ExcludeMethods)

\* the write of call i's entry to the configured sink failed
PrimaryFailed(i) == sink[i] # <<>> /\ ~sink[i][1].ok

\* the failure of a write is not handed to the call that produced the entry
NotPropagated(i) ==
    loggedCalls[i].pc = "done" =>
        /\ loggedCalls[i].ret.resp = CallHandler(loggedCalls[i].handler, LoggedRequest(i)).resp
        /\ loggedCalls[i].ret.err = CallHandler(loggedCalls[i].handler, LoggedRequest(i)).err

\* C21 as stated: when the configured sink's Write fails for an entry, the
\* entry is written exactly once more, to stdout; if that write fails too
\* the entry is dropped; the primary sink is not retried and the failure is
\* never propagated to the call that produced the entry
C21_FallbackOnce ==
    \A i \in Tasks :
        PrimaryFailed(i) =>
            /\ Len(sink[i]) = 2
            /\ sink[i][2].to = "stdout"
            /\ sink[i][1].to = logger.config.Destination
            /\ NotPropagated(i)

\* C21: when the configured sink is not stdout and its Write fails for an
\* entry, the entry is written exactly once more, to stdout, and if that
\* write fails too the entry is dropped; when the configured sink is stdout
\* itself the entry is dropped after the one failed write; the primary sink
\* is not retried and the failure is never propagated to the call that
\* produced the entry
C21_FallbackOnceUnlessStdout ==
    \A i \in Tasks :
        PrimaryFailed(i) =>
            /\ sink[i][1].to = logger.config.Destination
            /\ logger.config.Destination # "stdout" =>
                  /\ Len(sink[i]) = 2
                  /\ sink[i][2].to = "stdout"
            /\ logger.config.Destination = "stdout" => Len(sink[i]) = 1
            /\ \A k \in 2 .. Len(sink[i]) : sink[i][k].to # logger.config.Destination
            /\ NotPropagated(i)

\* C21: the write to the stream sink failed, the one write to stdout failed
\* as well, and the call that produced the entry has returned
C21_Witness ==
    \E i \in Tasks :
        /\ PrimaryFailed(i)
        /\ logger.config.Destination # "stdout"
        /\ Len(sink[i]) = 2 /\ ~sink[i][2].ok
        /\ loggedCalls[i].pc = "done"

\* the middlewares a call runs under chain c: all of them, or those up to
\* the first that answers without calling next
RunsUnder(c) == IF NoSkip(c) THEN c ELSE SubSeq(c, 1, FirstSkip(c))

\* C22: the middleware chain a call executes is fixed when its dispatch
\* starts: a call that has run through Execute has run exactly the
\* middlewares of the chain the Dispatcher held when Dispatch called
\* Execute, whatever SetMiddleware and Chain.Add did meanwhile
C22_ChainFixedAtStart ==
    inFlight.pc = "done" =>
        /\ ~inFlight.crashed
        /\ inFlight.ran = RunsUnder(inFlight.atStart)

\* the code of the error in the response ProcessSingleRequest returned, 0
\* when it returned no response or a response without an error
ReturnedCode ==
    IF Returned # NilResponse /\ Returned.Error # NilError THEN Returned.Error.code ELSE 0

\* C23: ProcessSingleRequest answers invalid-request (-32600) when the
\* protocol version is not "2.0" or the method is absent or empty, and
\* method-not-found (-32601) when the method of a request that passed
\* these two tests begins with "rpc."; in all these cases the Dispatcher,
\* the middleware chain and every handler are left uninvoked
C23_ValidationRejects ==
    IsEnvelope =>
        /\ (Envelope.jsonrpc # "2.0" \/ Envelope.method = "")
              => (ReturnedCode = InvalidRequest /\ dispatchLog = <<>>)
        /\ (Envelope.jsonrpc = "2.0" /\ Envelope.method = "rpc.discover")
              => (ReturnedCode = MethodNotFound /\ dispatchLog = <<>>)

\* C23: a request for rpc.discover with version "2.0" and an id was answered
\* with method-not-found on a stream connection, no Dispatch call made; the
\* handlers and the chain were there to be called
C23_Witness ==
    /\ IsEnvelope
    /\ Envelope.jsonrpc = "2.0" /\ Envelope.method = "rpc.discover" /\ Envelope.id = StrId("a")
    /\ ReturnedCode = MethodNotFound
    /\ dispatchLog = <<>>
    /\ written # <<>>
    /\ handlers["echo"] # NoHandler /\ middlewareChain # <<>>

\* the message was handed to ProcessBatchRequest and its bytes do not parse
\* as a JSON array
UnparsedBatch == msg.route = "batch" /\ msg.payload.json.k # "array"

\* ProcessBatchRequest returned one response, with this error code and id
\* null, and made no Dispatch call
SingleErrorResponse(code) ==
    /\ result.type = "*JSONRPCResponse"
    /\ result.ptr # NilResponse
    /\ result.ptr.Error # NilError
    /\ result.ptr.Error.code = code
    /\ result.ptr.Result = NilValue
    /\ EncodeResponse(result.ptr).id = NullId
    /\ dispatchLog = <<>>

\* C24 as stated: when the bytes handed to ProcessBatchRequest do not parse
\* as a JSON array, it returns a single invalid-request (-32600) response
\* with id null and processes no element
C24_BatchParseInvalidRequest == UnparsedBatch => SingleErrorResponse(InvalidRequest)

\* C24: when the bytes handed to ProcessBatchRequest do not parse as a JSON
\* array, it returns a single parse-error (-32700) response with id null
\* and processes no element
C24_BatchParseError == UnparsedBatch => SingleErrorResponse(ParseError)

\* C24: bytes that begin with "[" and are not JSON were answered on a
\* stream connection with one parse-error envelope of id null
C24_Witness ==
    /\ UnparsedBatch
    /\ msg.payload.json = Invalid("[")
    /\ conn.transport \in {"TCP", "WebSocket"}
    /\ SingleErrorResponse(ParseError)
    /\ Len(written) = 1
    /\ written[1].k = "object" /\ written[1].body.code = ParseError /\ written[1].body.id = NullId

\* the message is a notification that passes validateRequest
ValidNotification ==
    /\ IsEnvelope
    /\ Envelope.id = AbsentId
    /\ Envelope.jsonrpc = "2.0"
    /\ Envelope.method \in {"echo", "nope"}

\* C25: for a notification that passes validation the Dispatcher is invoked
\* exactly once, with the request of the notification, so that a registered
\* handler runs unless a middleware answers before it, and
\* ProcessSingleRequest returns nil whether the handler returns a result, an
\* RPC error or a failure, or the method is not registered
C25_NotificationDispatchedOnce ==
    ValidNotification =>
        /\ Len(dispatchLog) = 1
        /\ dispatchLog[1].request.Method = Envelope.method
        /\ dispatchLog[1].found = (handlers[Envelope.method] # NoHandler)
        /\ (dispatchLog[1].found /\ NoSkip(middlewareChain))
              => \E n \in DOMAIN dispatchLog[1].trace : dispatchLog[1].trace[n] = HandlerEvent
        /\ Returned = NilResponse

\* C25: a notification whose handler ran and returned a failure: one
\* Dispatch call, nil returned, nothing written
C25_Witness ==
    /\ ValidNotification
    /\ Len(dispatchLog) = 1
    /\ dispatchLog[1].err # NoErr
    /\ \E n \in DOMAIN dispatchLog[1].trace : dispatchLog[1].trace[n] = HandlerEvent
    /\ Returned = NilResponse
    /\ written = <<>>

\* the message is a request that passes validateRequest and has an id key,
\* and the one Dispatch call made for it returned a failure
FailedCall ==
    /\ IsEnvelope
    /\ Envelope.id # AbsentId
    /\ Envelope.jsonrpc = "2.0"
    /\ Envelope.method \in {"echo", "nope"}
    /\ Len(dispatchLog) = 1
    /\ dispatchLog[1].err # NoErr

\* C26: when the Dispatcher returns a failure for a non-notification call,
\* ProcessSingleRequest returns an internal-error (-32603) response that
\* carries the failure message and the id of the request
C26_FailureBecomesInternalError ==
    FailedCall =>
        /\ ReturnedCode = InternalError
        /\ Returned.Error.data[Len(Returned.Error.data)] = dispatchLog[1].err
        /\ EncodeResponse(Returned).id = Envelope.id

\* the turn ended with a failed Decode of the bytes on a TCP stream
DecodeFailed(t) == t.route = "none"

\* the turn ended with a failed write of its answer
WriteFailed(t) == t.result # NilIface /\ t.written = <<>>

\* C27: on a TCP/TLS or WebSocket connection the server reads, processes
\* and answers messages one at a time in receive order and returns to
\* reading after every processed message (success, error response or
\* notification); it leaves the loop only on EOF or a read failure, a failed
\* Decode of the stream among them, or on a write failure
C27_SequentialCalls ==
    /\ Len(served) + Len(inbox) = Len(sent)
    /\ \A k \in DOMAIN served :
          /\ served[k].payload = sent[k]
          /\ k < Len(served) => served[k].open
          /\ ~served[k].open => (DecodeFailed(served[k]) \/ WriteFailed(served[k]))
          /\ (served[k].open /\ served[k].result # NilIface)
                => served[k].written = <<EncodeResult(served[k].result)>>
    /\ (served # <<>> /\ served[Len(served)].open) => (conn.open \/ msg = NoMessage)

\* C27: a client sent a notification and then a call of an unregistered
\* method on one TCP connection; both were served in this order, the call
\* answered with an error response, and the connection is open for the next
\* message
C27_Witness ==
    /\ conn.open /\ conn.transport = "TCP"
    /\ Len(served) = 2
    /\ served[1].payload.json = Object("2.0", "echo", AbsentId)
    /\ served[2].payload.json = Object("2.0", "nope", StrId("a"))
    /\ served[2].written # <<>>
    /\ served[2].written[1].body.code = MethodNotFound

\* C28: on every transport a payload is routed to ProcessBatchRequest
\* exactly when its first non-whitespace byte is "[" and to
\* ProcessSingleRequest otherwise
C28_SameClassification ==
    msg.route # "none" =>
        (msg.route = "batch" <=> FirstByte(msg.payload.json) = "[")

\* the elements of the slice that call k returned, as they are now
ListOf(k) == arrays[lists[k].addr]

\* C29: GetRegisteredMethods returns exactly the set of method names
\* registered at that moment, each once, as a fresh list: later
\* RegisterHandler/UnregisterHandler calls, later calls of
\* GetRegisteredMethods and stores into other lists do not change a list
\* already returned, and a store into a returned list does not change the
\* registry
C29_FreshSnapshot ==
    /\ \A k \in DOMAIN lists :
          ~lists[k].touched =>
              /\ Len(ListOf(k)) = Cardinality(lists[k].at)
              /\ {ListOf(k)[i] : i \in DOMAIN ListOf(k)} = lists[k].at
    /\ \A k, l \in DOMAIN lists : k # l => lists[k].addr # lists[l].addr
    /\ handlers = completed
    /\ "mine" \notin Registered(handlers)

\* C29: a list of two names was returned, a handler was then unregistered,
\* a second list was returned and its caller stored into it; the first list
\* still holds the two names
C29_Witness ==
    /\ Len(lists) = 2
    /\ lists[1].at = {"echo", "nope"} /\ ~lists[1].touched
    /\ Len(ListOf(1)) = 2
    /\ Registered(handlers) = {"echo"}
    /\ lists[2].at = {"echo"} /\ lists[2].touched

\* C30: with Submit and Shutdown running concurrently, whenever Shutdown
\* has returned ok every fn whose Submit returned ok has finished, and no
\* Submit is accepted, or starts its fn, after the wait of Shutdown for the
\* tasks in flight has completed
C30_NoSubmitAfterDrain ==
    (shutdown.pc = "returned" /\ shutdown.result = NoErr) =>
        /\ Pending(Accepted) = {}
        /\ \A i \in Tasks : tasks[i].sub \notin {"add", "go", "return"} \/ tasks[i].run = "done"

\* C31: the log entry of a call is a snapshot of the request, the context,
\* the response and the failure as they were when next returned to
\* LoggingMiddleware: every field of the entry the task builds, its
\* duration included, is what it was at that moment
C31_EntryIsSnapshot ==
    entry # NoEntry => entry = call.atReturn

\* C36: a value a middleware writes into the bag of the context before it
\* calls next is seen by every later middleware of the chain and by the
\* handler, whatever chain of the repository's middlewares it is
C36_BagVisibleDownstream ==
    \A i \in DOMAIN call.chain : \A j \in DOMAIN call.seen :
        (call.chain[i] = "writer" /\ i < j)
            => <<"middleware_processed", "true">> \in call.seen[j]

\* C37: the transport label of the request context is the transport label
\* of the processing context the call arrived with, so the handler and the
\* log entry of the call report the transport of arrival
C37_TransportLabel ==
    /\ \A a \in DOMAIN contexts : contexts[a].Transport = call.transport
    /\ entry # NoEntry => entry.Transport = call.transport

\* C32: a panic of a handler or middleware in a synchronous call is caught
\* at the connection that carried the call, and only that connection is
\* closed: the process keeps running and no other connection is ended
C32_PanicContained ==
    /\ process = "running"
    /\ \A c \in DOMAIN connections : connections[c].state # "killed"

\* C33: Logger.Close closes the LogWriter only after the Shutdown of the
\* pipeline has returned; when the pending tasks ended within the deadline,
\* every accepted log task has ended by then and none writes to the closed
\* LogWriter; and a Process that begins after the pipeline was shut down
\* accepts no task
C33_CloseAfterDrain ==
    /\ (writerClosed /\ logger.async) => shutdown.pc = "returned"
    /\ (writerClosed /\ logger.async /\ shutdown.result = NoErr)
          => /\ \A i \in Accepted : tasks[i].run = "done"
             /\ closedWrites = {}
    /\ \A i \in Tasks : (tasks[i].sub = "returned" /\ tasks[i].late) => tasks[i].res # NoErr

C35_ChainRunsIffRegistered ==
    \A k \in DOMAIN dispatchLog :
        \E r \in {dispatchLog[k]} :
            IF handlers[r.request.Method] = NoHandler
            THEN /\ ~r.found
                 /\ r.trace = <<>>
                 /\ r.err = NoErr
                 /\ r.resp = Response("2.0", NilValue, NewMethodNotFoundError, r.request.ID)
            ELSE /\ r.found
                 /\ r.trace # <<>>
                 /\ middlewareChain # <<>> => r.trace[1] = Pre(1)

\* C35: a batch of two calls passed a server with a middleware: one found
\* its handler and went through the chain, the other missed and ran nothing
C35_Witness ==
    /\ middlewareChain # <<>>
    /\ \E j, k \in DOMAIN dispatchLog :
          /\ dispatchLog[j].found /\ dispatchLog[j].trace[1] = Pre(1)
          /\ ~dispatchLog[k].found /\ dispatchLog[k].trace = <<>>

\* the response the call of goroutine g must get: that of its own request
\* and of the handler it found
OwnResponse(g) ==
    processRegularRequest(callers[g].request,
        Dispatch([handlers EXCEPT ![callers[g].request.Method] = callers[g].handler],
                 middlewareChain, callers[g].request)).resp

\* C38: of the calls that are processed at the same time, while handlers
\* are registered, each has a request context of its own, which holds its
\* method and transport when its handler reads it, and each gets the
\* response of its own handler invocation with its own id
C38_CallsIsolated ==
    /\ \A g, h \in DOMAIN callers :
          (g # h /\ callers[g].ctx # 0 /\ callers[h].ctx # 0) => callers[g].ctx # callers[h].ctx
    /\ \A g \in DOMAIN callers :
          callers[g].pc = "done" =>
             /\ callers[g].resp = OwnResponse(g)
             /\ callers[g].resp.ID = StrId(CallIds[g])
             /\ callers[g].handler # NoHandler =>
                   /\ <<"method", callers[g].request.Method>> \in callers[g].saw
                   /\ <<"transport", callers[g].transport>> \in callers[g].saw

\* C38: two calls of "nope" that came by different transports are done:
\* one missed the handler and the other, whose context was made first,
\* found it, the handler having been registered or removed in between
C38_Witness ==
    \E g, h \in DOMAIN callers :
        /\ g # h
        /\ callers[g].pc = "done" /\ callers[h].pc = "done"
        /\ callers[g].request.Method = "nope" /\ callers[h].request.Method = "nope"
        /\ callers[g].transport # callers[h].transport
        /\ callers[g].handler = NoHandler /\ callers[h].handler = "rpcerr"
        /\ callers[g].ctx > callers[h].ctx

\* the Shutdown that has returned nil was called after Process had accepted
\* the fn of call i
AwaitedBy(i) ==
    /\ shutdown.pc = "returned"
    /\ shutdown.result = NoErr
    /\ i \in shutdown.before

====
